---- MODULE Spec2Model ----
(***************************************************************************)
(* Model of the reminder backend of 713zhao/aireminder                     *)
(* (src/mcp/python/reminders_service.py and src/mcp/python/utils.py):      *)
(* the recurrence matcher _matches_on_date, the own+shared merge and the   *)
(* date-scoped queries built on them.                                      *)
(*                                                                         *)
(* Values are tagged records, because a Firestore field can hold None, a   *)
(* timestamp, a string or something else and the code branches on that.    *)
(* Strings are sequences of one-character strings so that lower() and      *)
(* strip() are computed, not assumed.                                      *)
(***************************************************************************)
EXTENDS Integers, Sequences, FiniteSets, TLC

VARIABLES
    store,   \* the shared_tasks collection, in document-id order
    now,     \* the clock read by datetime.now()
    out,     \* the last query and what it returned
    mr,      \* the reminder handed to _matches_on_date
    mt,      \* the target_date handed to _matches_on_date
    mres,    \* what _matches_on_date returned
    ma,      \* the two lists handed to _merge_and_deduplicate_reminders
    mo,      \* what the merge returned, call after call
    hist,    \* per document: who created it, how many mutations succeeded
    calls    \* per client process: the mutation it is in the middle of

vars == <<store, now, out, mr, mt, mres, ma, mo, hist, calls>>

----------------------------------------------------------------------------
(* Bounds of the checked instances.                                        *)

\* target days 2026-02-01 .. 2026-02-WinLen are enumerated one by one
WinLen == 23
\* due days 2026-02-01 .. 2026-02-DueLen are enumerated one by one
DueLen == 3
\* the drawn collections hold at most MaxDocs documents
MaxDocs == 3
\* get_upcoming_reminders is asked for -1 .. MaxWindow days
MaxWindow == 2
\* the lists handed to the merge hold at most MaxMergeLen reminders
MaxMergeLen == 2
\* at most MaxMutations updates, completions and deletions succeed in a run
MaxMutations == 2

----------------------------------------------------------------------------
(* Strings: str.lower() and str.strip().                                   *)

LowerChar(c) ==
    CASE c = "D" -> "d" [] c = "A" -> "a" [] c = "I" -> "i"
      [] c = "L" -> "l" [] c = "Y" -> "y" [] c = "W" -> "w"
      [] c = "E" -> "e" [] c = "K" -> "k" [] c = "M" -> "m"
      [] c = "O" -> "o" [] c = "N" -> "n" [] c = "T" -> "t"
      [] c = "H" -> "h" [] c = "R" -> "r" [] OTHER -> c

Lower(s) == [i \in 1..Len(s) |-> LowerChar(s[i])]

IsSpace(c) == c \in {" ", "\t", "\n", "\r"}

RECURSIVE LStrip(_)
LStrip(s) == IF s # <<>> /\ IsSpace(Head(s)) THEN LStrip(Tail(s)) ELSE s

RECURSIVE RStrip(_)
RStrip(s) ==
    IF s # <<>> /\ IsSpace(s[Len(s)]) THEN RStrip(SubSeq(s, 1, Len(s) - 1)) ELSE s

Strip(s) == LStrip(RStrip(s))

----------------------------------------------------------------------------
(* Calendar arithmetic of Python's datetime, which the service relies on   *)
(* for comparisons, isoweekday() and timedelta.                            *)

Date(y, m, d) == [y |-> y, m |-> m, d |-> d]
NoDate == Date(0, 0, 0)

IsLeap(y) == y % 4 = 0 /\ (y % 100 # 0 \/ y % 400 = 0)

DaysInMonth(y, m) ==
    IF m = 2 THEN (IF IsLeap(y) THEN 29 ELSE 28)
    ELSE IF m \in {4, 6, 9, 11} THEN 30 ELSE 31

RECURSIVE DaysBeforeMonth(_, _)
DaysBeforeMonth(y, m) ==
    IF m = 1 THEN 0 ELSE DaysBeforeMonth(y, m - 1) + DaysInMonth(y, m - 1)

DaysBeforeYear(y) ==
    LET p == y - 1 IN p * 365 + (p \div 4) - (p \div 100) + (p \div 400)

\* date.toordinal(): 0001-01-01 is day 1
ToOrdinal(dt) == DaysBeforeYear(dt.y) + DaysBeforeMonth(dt.y, dt.m) + dt.d

\* a plausible slip: date.weekday() numbering (Monday=0 .. Sunday=6)
IsoWeekday_weekday(dt) == (ToOrdinal(dt) + 6) % 7

\* date.isoweekday(): Monday=1 .. Sunday=7
IsoWeekday(dt) == IF ToOrdinal(dt) % 7 = 0 THEN 7 ELSE ToOrdinal(dt) % 7

NextDay(dt) ==
    IF dt.d < DaysInMonth(dt.y, dt.m) THEN Date(dt.y, dt.m, dt.d + 1)
    ELSE IF dt.m < 12 THEN Date(dt.y, dt.m + 1, 1)
    ELSE Date(dt.y + 1, 1, 1)

\* dt + timedelta(days=k), k >= 0
RECURSIVE AddDays(_, _)
AddDays(dt, k) == IF k <= 0 THEN dt ELSE AddDays(NextDay(dt), k - 1)

----------------------------------------------------------------------------
(* datetime values: a calendar date, the minute of the day and the seconds *)
(* left over.  None is the absent value.                                   *)

DateTime(dt, min, sec) == [t |-> "dt", date |-> dt, min |-> min, sec |-> sec]
None == [t |-> "none", date |-> NoDate, min |-> 0, sec |-> 0]
\* an ISO-8601 string that datetime.fromisoformat accepts
IsoStr(dt, min) == [t |-> "iso", date |-> dt, min |-> min, sec |-> 0]
\* a non-empty string that datetime.fromisoformat rejects
BadStr == [t |-> "bad", date |-> NoDate, min |-> 0, sec |-> 0]
\* the empty string
EmptyStr == [t |-> "empty", date |-> NoDate, min |-> 0, sec |-> 0]

Midnight(dt) == DateTime(dt, 0, 0)

\* Python truthiness of a field holding None, a datetime or a string
Truthy(v) == v.t \in {"dt", "iso", "bad"}

\* datetime.fromisoformat(s.replace("Z", "+00:00")); None stands for ValueError
FromIsoFormat(v) == IF v.t = "iso" THEN DateTime(v.date, v.min, v.sec) ELSE None

\* a plausible slip: the year is left out of the comparison
DtLess_noYear(a, b) ==
    \/ a.date.m < b.date.m
    \/ a.date.m = b.date.m /\ a.date.d < b.date.d

\* datetime.__lt__ on two naive datetimes
DtLess(a, b) ==
    \/ a.date.y < b.date.y
    \/ a.date.y = b.date.y /\ a.date.m < b.date.m
    \/ a.date.y = b.date.y /\ a.date.m = b.date.m /\ a.date.d < b.date.d
    \/ a.date = b.date /\ a.min < b.min
    \/ a.date = b.date /\ a.min = b.min /\ a.sec < b.sec

DtLeq(a, b) == ~DtLess(b, a)

----------------------------------------------------------------------------
(* Field values other than datetimes.                                      *)

\* recurrence: None, a string, or a value of another type
NoRecurrence == [t |-> "none", s |-> <<>>, n |-> 0]
Str(s) == [t |-> "str", s |-> s, n |-> 0]
IntVal(n) == [t |-> "int", s |-> <<>>, n |-> n]
\* title: None or a string
NoTitle == [t |-> "none", s |-> <<>>, n |-> 0]

RecurrenceFalsy(rec) ==
    \/ rec.t = "none"
    \/ rec.t = "str" /\ rec.s = <<>>
    \/ rec.t = "int" /\ rec.n = 0

\* weeklyDays: None, a list of weekday numbers, or a value that is no list
NoWeeklyDays == [t |-> "none", l |-> <<>>]
List(l) == [t |-> "list", l |-> l]
NotAList == [t |-> "str", l |-> <<>>]

SeqToSet(q) == {q[i] : i \in 1..Len(q)}

----------------------------------------------------------------------------
(* reminders_service.py: date helpers.                                     *)

\* a plausible slip: month and day compared, the year forgotten
IsSameDay_noYear(dt1, dt2) ==
    LET a == IF dt1.t \in {"iso", "bad", "empty"} THEN FromIsoFormat(dt1) ELSE dt1
    IN  /\ a.t = "dt"
        /\ dt2.t = "dt"
        /\ a.date.m = dt2.date.m
        /\ a.date.d = dt2.date.d

IsSameDay(dt1, dt2) ==
    LET a == IF dt1.t \in {"iso", "bad", "empty"} THEN FromIsoFormat(dt1) ELSE dt1
    IN  /\ a.t = "dt"
        /\ dt2.t = "dt"
        /\ a.date.y = dt2.date.y
        /\ a.date.m = dt2.date.m
        /\ a.date.d = dt2.date.d

NormalizeDateToMidnight(dt) ==
    LET a == IF dt.t \in {"iso", "bad", "empty"} THEN FromIsoFormat(dt) ELSE dt
    IN  IF a.t = "dt" THEN Midnight(a.date) ELSE None

GetTimeOfDay(dt) ==
    LET a == IF dt.t \in {"iso", "bad", "empty"} THEN FromIsoFormat(dt) ELSE dt
    IN  IF a.t = "dt" THEN a.min ELSE 0

----------------------------------------------------------------------------
(* reminders_service.py: _matches_on_date, one definition per branch.      *)

\* lines 345-352: the anchor day, None when dueAt is absent or unparsable
DueOf(reminder) ==
    IF reminder.dueAt.t = "none" THEN None
    ELSE NormalizeDateToMidnight(reminder.dueAt)

\* lines 355-356: only hour and minute are looked at
NormalizeTarget(target_date) ==
    IF target_date.min # 0 THEN Midnight(target_date.date) ELSE target_date

\* a plausible slip: the due day itself counts as before the due date
BeforeDue_dueDayToo(target_date, due) ==
    DtLess(target_date, due) \/ IsSameDay(due, target_date)

\* line 359
BeforeDue(target_date, due) ==
    DtLess(target_date, due) /\ ~IsSameDay(due, target_date)

\* line 364: recurrenceEnd (Firestore) or recurrenceEndDate (local)
RecurrenceEndField(reminder) ==
    IF Truthy(reminder.recurrenceEnd) THEN reminder.recurrenceEnd
    ELSE reminder.recurrenceEndDate

\* a plausible slip: the end day itself is cut off
AfterRecurrenceEnd_exclusive(reminder, target_date) ==
    LET recurrence_end_date == RecurrenceEndField(reminder)
        end_date == NormalizeDateToMidnight(recurrence_end_date)
    IN  /\ Truthy(recurrence_end_date)
        /\ end_date.t # "none"
        /\ DtLeq(end_date, target_date)

\* lines 365-368
AfterRecurrenceEnd(reminder, target_date) ==
    LET recurrence_end_date == RecurrenceEndField(reminder)
        end_date == NormalizeDateToMidnight(recurrence_end_date)
    IN  /\ Truthy(recurrence_end_date)
        /\ end_date.t # "none"
        /\ DtLess(end_date, target_date)

\* a plausible slip: the due day itself is left out
MatchDaily_strict(due, target_date) == DtLess(due, target_date)

\* lines 380-381
MatchDaily(due, target_date) == DtLeq(due, target_date)

\* a plausible slip: without weeklyDays the reminder shows every day
MatchWeekly_noDefault(reminder, due, target_date) ==
    IF DtLess(target_date, due) THEN FALSE
    ELSE LET weekly_days == reminder.weeklyDays IN
         IF weekly_days.t = "list" /\ Len(weekly_days.l) > 0
         THEN IsoWeekday(target_date.date) \in SeqToSet(weekly_days.l)
         ELSE TRUE

\* lines 384-397
MatchWeekly(reminder, due, target_date) ==
    IF DtLess(target_date, due) THEN FALSE
    ELSE LET weekly_days == reminder.weeklyDays IN
         IF weekly_days.t = "list" /\ Len(weekly_days.l) > 0
         THEN IsoWeekday(target_date.date) \in SeqToSet(weekly_days.l)
         ELSE IsoWeekday(target_date.date) = IsoWeekday(due.date)

\* a plausible slip: the last day of a shorter month stands in for day 29-31
MatchMonthly_clamped(due, target_date) ==
    /\ \/ due.date.d = target_date.date.d
       \/ /\ due.date.d > DaysInMonth(target_date.date.y, target_date.date.m)
          /\ target_date.date.d = DaysInMonth(target_date.date.y, target_date.date.m)
    /\ DtLeq(due, target_date)

\* lines 400-401
MatchMonthly(due, target_date) ==
    due.date.d = target_date.date.d /\ DtLeq(due, target_date)

\* a plausible slip: the month is not compared
MatchYearly_noMonth(due, target_date) ==
    due.date.d = target_date.date.d /\ DtLeq(due, target_date)

\* lines 404-409
MatchYearly(due, target_date) ==
    /\ due.date.m = target_date.date.m
    /\ due.date.d = target_date.date.d
    /\ DtLeq(due, target_date)

\* lines 371-413: the dispatch on recurrence; a value that is neither None
\* nor a string raises on .lower() and the except clause answers False
MatchRecurrence(reminder, due, target_date) ==
    LET recurrence == reminder.recurrence IN
    IF RecurrenceFalsy(recurrence) THEN IsSameDay(due, target_date)
    ELSE IF recurrence.t # "str" THEN FALSE
    ELSE LET recurrence_lower == Strip(Lower(recurrence.s)) IN
         IF recurrence_lower = <<"d", "a", "i", "l", "y">>
         THEN MatchDaily(due, target_date)
         ELSE IF recurrence_lower = <<"w", "e", "e", "k", "l", "y">>
         THEN MatchWeekly(reminder, due, target_date)
         ELSE IF recurrence_lower = <<"m", "o", "n", "t", "h", "l", "y">>
         THEN MatchMonthly(due, target_date)
         ELSE IF recurrence_lower = <<"y", "e", "a", "r", "l", "y">>
         THEN MatchYearly(due, target_date)
         ELSE IsSameDay(due, target_date)

\* lines 330-417
MatchesOnDate(reminder, target_date) ==
    LET due == DueOf(reminder) IN
    IF due.t = "none" THEN FALSE
    ELSE LET target == NormalizeTarget(target_date) IN
         IF BeforeDue(target, due) THEN FALSE
         ELSE IF AfterRecurrenceEnd(reminder, target) THEN FALSE
         ELSE MatchRecurrence(reminder, due, target)

\* line 377 with the try of line 331 taken away: .lower() on a recurrence
\* that is not a string raises once the dispatch is reached
MatchEscapes_noExcept(reminder, target_date) ==
    LET due == DueOf(reminder) IN
    /\ due.t # "none"
    /\ ~BeforeDue(NormalizeTarget(target_date), due)
    /\ ~AfterRecurrenceEnd(reminder, NormalizeTarget(target_date))
    /\ ~RecurrenceFalsy(reminder.recurrence)
    /\ reminder.recurrence.t # "str"

\* lines 331 and 415-417: the whole body sits in try/except Exception, so
\* no exception of the evaluation reaches the caller
MatchEscapes(reminder, target_date) ==
    FALSE

----------------------------------------------------------------------------
(* utils.py: the clock-dependent predicates.  "error" stands for the       *)
(* exception datetime.fromisoformat raises on an unparsable string.        *)

\* is_past(date): "true", "false" or "error"
IsPast(date, clock) ==
    IF ~Truthy(date) THEN "false"
    ELSE LET a == IF date.t \in {"iso", "bad"} THEN FromIsoFormat(date) ELSE date IN
         IF a.t # "dt" THEN "error"
         ELSE IF DtLess(a, clock) THEN "true" ELSE "false"

\* is_today(date)
IsToday(date, clock) ==
    IF ~Truthy(date) THEN "false"
    ELSE LET a == IF date.t \in {"iso", "bad"} THEN FromIsoFormat(date) ELSE date IN
         IF a.t # "dt" THEN "error"
         ELSE IF a.date = clock.date THEN "true" ELSE "false"

\* days_until(date) for a parsable date: both ends are cut to midnight
DaysUntil(date, clock) ==
    LET a == IF date.t = "iso" THEN FromIsoFormat(date) ELSE date
    IN  ToOrdinal(a.date) - ToOrdinal(clock.date)

\* r.get("isCompleted") is one of "True", "False", "None"
Completed(reminder) == reminder.isCompleted = "True"

\* a plausible slip: a reminder without a due date counts as overdue
IsOverdue_noDueGuard(reminder, clock) ==
    IF Completed(reminder) THEN "false"
    ELSE IF ~Truthy(reminder.dueAt) THEN "true"
    ELSE IsPast(reminder.dueAt, clock)

\* is_overdue(reminder)
IsOverdue(reminder, clock) ==
    IF ~Truthy(reminder.dueAt) THEN "false"
    ELSE IF Completed(reminder) THEN "false"
    ELSE IsPast(reminder.dueAt, clock)

\* get_status(reminder), for a reminder whose dueAt is absent or parsable
GetStatus(reminder, clock) ==
    IF Completed(reminder) THEN "completed"
    ELSE IF ~Truthy(reminder.dueAt) THEN "no-due-date"
    ELSE IF IsOverdue(reminder, clock) = "true" THEN "overdue"
    ELSE IF IsToday(reminder.dueAt, clock) = "true" THEN "due-today"
    ELSE LET days == DaysUntil(reminder.dueAt, clock) IN
         IF days # 0 /\ days <= 0 THEN "due-today"
         ELSE IF days = 1 THEN "due-tomorrow"
         ELSE IF days # 0 /\ days <= 7 THEN "due-this-week"
         ELSE "upcoming"

\* a plausible slip: what is due today is ranked before what is overdue
PriorityOf_todayFirst(status) ==
    CASE status = "overdue" -> 1
      [] status = "due-today" -> 0
      [] status = "due-tomorrow" -> 2
      [] status = "due-this-week" -> 3
      [] status = "upcoming" -> 4
      [] status = "no-due-date" -> 5
      [] status = "completed" -> 6
      [] OTHER -> 99

\* priority_map.get(status, 99)
PriorityOf(status) ==
    CASE status = "overdue" -> 0
      [] status = "due-today" -> 1
      [] status = "due-tomorrow" -> 2
      [] status = "due-this-week" -> 3
      [] status = "upcoming" -> 4
      [] status = "no-due-date" -> 5
      [] status = "completed" -> 6
      [] OTHER -> 99

----------------------------------------------------------------------------
(* list.sort / sorted: a stable sort of <<key, item>> pairs by key.        *)

\* a plausible slip: an unstable sort, equal keys change places
RECURSIVE InsertByKey_unstable(_, _)
InsertByKey_unstable(sorted, x) ==
    IF sorted = <<>> THEN <<x>>
    ELSE IF x[1] <= Head(sorted)[1] THEN <<x>> \o sorted
    ELSE <<Head(sorted)>> \o InsertByKey_unstable(Tail(sorted), x)

RECURSIVE InsertByKey(_, _)
InsertByKey(sorted, x) ==
    IF sorted = <<>> THEN <<x>>
    ELSE IF x[1] < Head(sorted)[1] THEN <<x>> \o sorted
    ELSE <<Head(sorted)>> \o InsertByKey(Tail(sorted), x)

RECURSIVE SortPairs(_)
SortPairs(pairs) ==
    IF pairs = <<>> THEN <<>>
    ELSE InsertByKey(SortPairs(SubSeq(pairs, 1, Len(pairs) - 1)), pairs[Len(pairs)])

Items(pairs) == [i \in 1..Len(pairs) |-> pairs[i][2]]

\* the key of a reminder without a due date: float("inf")
Infinity == 1000000000

\* due.timestamp(), in minutes
Timestamp(v) ==
    LET a == IF v.t = "iso" THEN FromIsoFormat(v) ELSE v
    IN  ToOrdinal(a.date) * 1440 + a.min

\* sort_by_due_date(reminders, "asc")
SortByDueDate(reminders) ==
    Items(SortPairs([i \in 1..Len(reminders) |->
        <<IF ~Truthy(reminders[i].dueAt) THEN Infinity
          ELSE Timestamp(reminders[i].dueAt), reminders[i]>>]))

\* sort_by_priority(reminders)
SortByPriority(reminders, clock) ==
    Items(SortPairs([i \in 1..Len(reminders) |->
        <<PriorityOf(GetStatus(reminders[i], clock)), reminders[i]>>]))

----------------------------------------------------------------------------
(* reminders_service.py: fetching and merging.                             *)

RECURSIVE SelectSeqIdx(_, _, _)
\* the subsequence of q at the positions in keep, in order
SelectSeqIdx(q, keep, i) ==
    IF i > Len(q) THEN <<>>
    ELSE (IF i \in keep THEN <<q[i]>> ELSE <<>>) \o SelectSeqIdx(q, keep, i + 1)

\* [r for r in reminders if not r.get("isCompleted")]
PendingOnly(reminders) ==
    SelectSeqIdx(reminders, {i \in 1..Len(reminders) : ~Completed(reminders[i])}, 1)

\* get_all_reminders(user_id, status, format_for_llm=False)
GetAllReminders(docs, user_id, status) ==
    LET reminders ==
            SelectSeqIdx(docs, {i \in 1..Len(docs) : docs[i].ownerId = user_id}, 1)
    IN  IF status = "completed"
        THEN SelectSeqIdx(reminders,
                 {i \in 1..Len(reminders) : reminders[i].isCompleted = "True"}, 1)
        ELSE IF status = "pending" THEN PendingOnly(reminders)
        ELSE reminders

\* a plausible slip: the query asks for isShared instead of the user
GetSharedReminders_anyShared(docs, user_id) ==
    SelectSeqIdx(docs, {i \in 1..Len(docs) : docs[i].isShared}, 1)

\* get_shared_reminders(user_id, format_for_llm=False)
GetSharedReminders(docs, user_id) ==
    SelectSeqIdx(docs,
        {i \in 1..Len(docs) : user_id \in SeqToSet(docs[i].sharedWith)}, 1)

\* a plausible slip: an entry is compared with the last one kept only
RECURSIVE AppendUnseen_lastOnly(_, _)
AppendUnseen_lastOnly(merged, reminders) ==
    IF reminders = <<>> THEN merged
    ELSE LET reminder == Head(reminders)
             seen_ids == IF merged = <<>> THEN {} ELSE {merged[Len(merged)].id}
         IN  AppendUnseen_lastOnly(
                 IF reminder.id \notin seen_ids THEN Append(merged, reminder)
                 ELSE merged,
                 Tail(reminders))

RECURSIVE AppendUnseen(_, _)
\* one of the two loops of _merge_and_deduplicate_reminders
AppendUnseen(merged, reminders) ==
    IF reminders = <<>> THEN merged
    ELSE LET reminder == Head(reminders)
             seen_ids == {merged[i].id : i \in 1..Len(merged)}
         IN  AppendUnseen(
                 IF reminder.id \notin seen_ids THEN Append(merged, reminder)
                 ELSE merged,
                 Tail(reminders))

\* a plausible slip: the shared list is walked first
MergeAndDeduplicate_sharedFirst(own_reminders, shared_reminders) ==
    AppendUnseen(AppendUnseen(<<>>, shared_reminders), own_reminders)

\* _merge_and_deduplicate_reminders(own_reminders, shared_reminders)
MergeAndDeduplicate(own_reminders, shared_reminders) ==
    AppendUnseen(AppendUnseen(<<>>, own_reminders), shared_reminders)

\* a plausible slip: the shared list is merged as fetched
AllReminders_sharedAsFetched(docs, user_id, include_completed) ==
    MergeAndDeduplicate(
        GetAllReminders(docs, user_id,
                        IF include_completed THEN "all" ELSE "pending"),
        GetSharedReminders(docs, user_id))

\* lines 243-261 and their copies: the merged own+shared list of a user
AllReminders(docs, user_id, include_completed) ==
    LET own_reminders ==
            GetAllReminders(docs, user_id,
                            IF include_completed THEN "all" ELSE "pending")
        fetched == GetSharedReminders(docs, user_id)
        shared_reminders ==
            IF ~include_completed THEN PendingOnly(fetched) ELSE fetched
    IN  MergeAndDeduplicate(own_reminders, shared_reminders)

----------------------------------------------------------------------------
(* reminders_service.py: the date-scoped queries, format_for_llm=False.    *)
(* A query answers [status |-> "ok", result |-> list] or raises.           *)

Ok(result) == [status |-> "ok", result |-> result]
Raised == [status |-> "error", result |-> <<>>]

\* get_reminders_for_date(user_id, date_str, include_completed)
GetRemindersForDate(docs, user_id, date_str, include_completed) ==
    LET parsed == FromIsoFormat(date_str) IN
    IF parsed.t # "dt" THEN Raised
    ELSE LET target_date == Midnight(parsed.date)
             all_reminders == AllReminders(docs, user_id, include_completed)
             date_reminders ==
                 SelectSeqIdx(all_reminders,
                     {i \in 1..Len(all_reminders) :
                         MatchesOnDate(all_reminders[i], target_date)}, 1)
         IN  IF \E i \in 1..Len(all_reminders) :
                    MatchEscapes(all_reminders[i], target_date)
             THEN Raised
             ELSE
             Ok(Items(SortPairs([i \in 1..Len(date_reminders) |->
                 <<GetTimeOfDay(date_reminders[i].dueAt), date_reminders[i]>>])))

\* datetime.isoformat() of a naive datetime
IsoFormat(dt) == IsoStr(dt.date, dt.min)

\* get_today_reminders(user_id, include_completed)
GetTodayReminders(docs, clock, user_id, include_completed) ==
    LET today_midnight == Midnight(clock.date)
    IN  GetRemindersForDate(docs, user_id, IsoFormat(today_midnight), include_completed)

\* a plausible slip: the day after the window is scanned too
RECURSIVE UpcomingScan_dayAfter(_, _, _, _, _)
UpcomingScan_dayAfter(all_reminders, today, day_offset, days, upcoming_reminders) ==
    IF day_offset > days THEN upcoming_reminders
    ELSE LET check_date == Midnight(AddDays(today, day_offset))
             hits == SelectSeqIdx(all_reminders,
                         {i \in 1..Len(all_reminders) :
                             MatchesOnDate(all_reminders[i], check_date)}, 1)
         IN  UpcomingScan_dayAfter(all_reminders, today, day_offset + 1, days,
                                   AppendUnseen(upcoming_reminders, hits))

RECURSIVE UpcomingScan(_, _, _, _, _)
\* lines 150-160: the two nested loops, day by day and reminder by reminder
UpcomingScan(all_reminders, today, day_offset, days, upcoming_reminders) ==
    IF day_offset >= days THEN upcoming_reminders
    ELSE LET check_date == Midnight(AddDays(today, day_offset))
             hits == SelectSeqIdx(all_reminders,
                         {i \in 1..Len(all_reminders) :
                             MatchesOnDate(all_reminders[i], check_date)}, 1)
         IN  UpcomingScan(all_reminders, today, day_offset + 1, days,
                          AppendUnseen(upcoming_reminders, hits))

\* get_upcoming_reminders(user_id, days, sort_by, include_completed)
GetUpcomingReminders(docs, clock, user_id, days, sort_by, include_completed) ==
    LET all_reminders == AllReminders(docs, user_id, include_completed)
        upcoming_reminders == UpcomingScan(all_reminders, clock.date, 0, days, <<>>)
    IN  IF \E day_offset \in 0..(days - 1), i \in 1..Len(all_reminders) :
               MatchEscapes(all_reminders[i], Midnight(AddDays(clock.date, day_offset)))
        THEN Raised
        ELSE IF sort_by = "dueDate" THEN Ok(SortByDueDate(upcoming_reminders))
        ELSE IF sort_by = "priority" THEN Ok(SortByPriority(upcoming_reminders, clock))
        ELSE Ok(upcoming_reminders)

\* get_overdue_reminders(user_id)
GetOverdueReminders(docs, clock, user_id) ==
    LET all_reminders == AllReminders(docs, user_id, FALSE) IN
    IF \E i \in 1..Len(all_reminders) : IsOverdue(all_reminders[i], clock) = "error"
    THEN Raised
    ELSE Ok(SelectSeqIdx(all_reminders,
                {i \in 1..Len(all_reminders) :
                    IsOverdue(all_reminders[i], clock) = "true"}, 1))

----------------------------------------------------------------------------
(* reminders_service.py: reading one document, searching, the summary and  *)
(* the four mutations, format_for_llm=False.  A call answers what it       *)
(* returns, or the message of the exception it raises, and the collection  *)
(* it leaves.                                                              *)

Done(result, docs) ==
    [status |-> "ok", error |-> "", result |-> result, docs |-> docs]
Fail(error, docs) ==
    [status |-> "error", error |-> error, result |-> <<>>, docs |-> docs]

\* doc.exists
Exists(docs, reminder_id) == reminder_id \in 1..Len(docs)

\* get_reminder_by_id(reminder_id, user_id)
GetReminderById(docs, reminder_id, user_id) ==
    IF ~Exists(docs, reminder_id) THEN Fail("Reminder not found", docs)
    ELSE LET reminder == docs[reminder_id] IN
         IF /\ reminder.ownerId # user_id
            /\ user_id \notin SeqToSet(reminder.sharedWith)
         THEN Fail("Access denied", docs)
         ELSE Done(<<reminder>>, docs)

\* q in s, for two strings
IsSubstring(q, s) ==
    \E i \in 0..(Len(s) - Len(q)) : SubSeq(s, i + 1, i + Len(q)) = q

\* utils.search_reminders(reminders, query); the notes of the documents
\* modelled are None
SearchReminders(reminders, query) ==
    IF query = <<>> THEN reminders
    ELSE SelectSeqIdx(reminders,
             {i \in 1..Len(reminders) :
                 IsSubstring(Lower(query), Lower(reminders[i].title))}, 1)

\* search_user_reminders(user_id, query, status, limit=None)
SearchUserReminders(docs, user_id, query, status) ==
    Ok(SearchReminders(GetAllReminders(docs, user_id, status), query))

\* round((completed / total) * 100, 1) if total else 0, in tenths of a
\* percent
CompletionRate(completed, total) ==
    IF total = 0 THEN 0 ELSE (2000 * completed + total) \div (2 * total)

\* a plausible slip: a pending reminder without dueAt counts as upcoming
GetRemindersSummary_undatedUpcoming(docs, clock, user_id) ==
    LET reminders == MergeAndDeduplicate(GetAllReminders(docs, user_id, "all"),
                                         GetSharedReminders(docs, user_id))
        all == 1..Len(reminders)
        completed == {i \in all : Completed(reminders[i])}
        pending == all \ completed
        dated == {i \in all : Truthy(reminders[i].dueAt)}
    IN  IF \E i \in dated : IsToday(reminders[i].dueAt, clock) = "error"
        THEN Raised
        ELSE Ok(<<[total |-> Len(reminders),
                   completed |-> Cardinality(completed),
                   pending |-> Cardinality(pending),
                   overdue |-> Cardinality({i \in pending \cap dated :
                                   IsPast(reminders[i].dueAt, clock) = "true"}),
                   dueToday |-> Cardinality({i \in pending \cap dated :
                                   IsToday(reminders[i].dueAt, clock) = "true"}),
                   upcoming |-> Cardinality({i \in pending :
                                   IsPast(reminders[i].dueAt, clock) = "false"}),
                   completionRate |->
                       CompletionRate(Cardinality(completed), Len(reminders))]>>)

\* get_reminders_summary(user_id)
GetRemindersSummary(docs, clock, user_id) ==
    LET reminders == MergeAndDeduplicate(GetAllReminders(docs, user_id, "all"),
                                         GetSharedReminders(docs, user_id))
        all == 1..Len(reminders)
        completed == {i \in all : Completed(reminders[i])}
        pending == all \ completed
        dated == {i \in all : Truthy(reminders[i].dueAt)}
    IN  IF \E i \in dated : IsToday(reminders[i].dueAt, clock) = "error"
        THEN Raised
        ELSE Ok(<<[total |-> Len(reminders),
                   completed |-> Cardinality(completed),
                   pending |-> Cardinality(pending),
                   overdue |-> Cardinality({i \in pending \cap dated :
                                   IsPast(reminders[i].dueAt, clock) = "true"}),
                   dueToday |-> Cardinality({i \in pending \cap dated :
                                   IsToday(reminders[i].dueAt, clock) = "true"}),
                   upcoming |-> Cardinality({i \in pending \cap dated :
                                   IsPast(reminders[i].dueAt, clock) = "false"}),
                   completionRate |->
                       CompletionRate(Cardinality(completed), Len(reminders))]>>)

\* a plausible slip: only the empty title is turned away
TitleBlank_noStrip(title) == title.t = "none" \/ title.s = <<>>

\* not title or not title.strip()
TitleBlank(title) == title.t = "none" \/ Strip(title.s) = <<>>

\* datetime.fromisoformat raises on the value
IsoRaises(v) == Truthy(v) /\ FromIsoFormat(v).t # "dt"

\* create_reminder(user_id, title, due_at=..., recurrence=..., shared_with=...)
CreateReminder(docs, user_id, title, due_at, recurrence, shared_with) ==
    IF TitleBlank(title) THEN Fail("Title is required", docs)
    ELSE IF IsoRaises(due_at) THEN Fail("Invalid isoformat string", docs)
    ELSE LET reminder ==
                 [id |-> Len(docs) + 1,
                  title |-> Strip(title.s),
                  ownerId |-> user_id,
                  isCompleted |-> "False",
                  completedAt |-> None,
                  dueAt |-> IF Truthy(due_at) THEN FromIsoFormat(due_at) ELSE None,
                  recurrence |-> IF RecurrenceFalsy(recurrence) THEN NoRecurrence
                                 ELSE recurrence,
                  recurrenceEnd |-> None,
                  recurrenceEndDate |-> None,
                  weeklyDays |-> NoWeeklyDays,
                  isShared |-> shared_with # <<>>,
                  sharedWith |-> shared_with,
                  lastModifiedBy |-> user_id,
                  deleted |-> FALSE,
                  deletedAt |-> None,
                  version |-> 1]
         IN  Done(<<reminder>>, Append(docs, reminder))

\* a plausible slip: the payload is spread last and wins over the stamps
UpdateData_payloadLast(reminder, user_id, updates) ==
    LET stamps == [lastModifiedBy |-> user_id, version |-> reminder.version + 1]
    IN  [k \in DOMAIN updates \cup DOMAIN stamps |->
            IF k \in DOMAIN updates THEN updates[k] ELSE stamps[k]]

\* lines 750-756: {**updates, "updatedAt", "lastModifiedBy", "version"}
UpdateData(reminder, user_id, updates) ==
    LET stamps == [lastModifiedBy |-> user_id, version |-> reminder.version + 1]
    IN  [k \in DOMAIN updates \cup DOMAIN stamps |->
            IF k \in DOMAIN stamps THEN stamps[k] ELSE updates[k]]

\* lines 758-770: a date of the payload that fromisoformat rejects
ConversionRaises(update_data) ==
    \/ "dueAt" \in DOMAIN update_data /\ IsoRaises(update_data.dueAt)
    \/ "recurrenceEndDate" \in DOMAIN update_data
           /\ IsoRaises(update_data.recurrenceEndDate)

\* lines 758-776: dates are parsed and isShared follows a sharedWith of the
\* payload; a title that passed line 746 is a string and is stored as one
Converted(update_data) ==
    LET keys == DOMAIN update_data \cup
                (IF "sharedWith" \in DOMAIN update_data THEN {"isShared"} ELSE {})
    IN  [k \in keys |->
            IF k = "isShared" /\ "sharedWith" \in DOMAIN update_data
            THEN update_data.sharedWith # <<>>
            ELSE IF k \in {"dueAt", "recurrenceEndDate"}
            THEN (IF Truthy(update_data[k]) THEN FromIsoFormat(update_data[k])
                  ELSE None)
            ELSE IF k = "title" THEN update_data.title.s
            ELSE update_data[k]]

\* reminder_ref.update(data): the fields named are written, the others kept
Written(reminder, data) ==
    [k \in DOMAIN reminder |-> IF k \in DOMAIN data THEN data[k] ELSE reminder[k]]

\* a plausible slip: whoever may complete may also edit
UpdateReminder_sharedMayEdit(docs, reminder_id, user_id, updates) ==
    IF ~Exists(docs, reminder_id) THEN Fail("Reminder not found", docs)
    ELSE LET reminder == docs[reminder_id] IN
         IF /\ reminder.ownerId # user_id
            /\ user_id \notin SeqToSet(reminder.sharedWith)
         THEN Fail("Access denied", docs)
         ELSE IF "title" \in DOMAIN updates /\ TitleBlank(updates.title)
         THEN Fail("Title cannot be empty", docs)
         ELSE LET update_data == UpdateData(reminder, user_id, updates) IN
              IF ConversionRaises(update_data)
              THEN Fail("Invalid isoformat string", docs)
              ELSE LET updated == Written(reminder, Converted(update_data))
                   IN  Done(<<updated>>, [docs EXCEPT ![reminder_id] = updated])

\* update_reminder(reminder_id, user_id, **updates)
UpdateReminder(docs, reminder_id, user_id, updates) ==
    IF ~Exists(docs, reminder_id) THEN Fail("Reminder not found", docs)
    ELSE LET reminder == docs[reminder_id] IN
         IF reminder.ownerId # user_id THEN Fail("Access denied", docs)
         ELSE IF "title" \in DOMAIN updates /\ TitleBlank(updates.title)
         THEN Fail("Title cannot be empty", docs)
         ELSE LET update_data == UpdateData(reminder, user_id, updates) IN
              IF ConversionRaises(update_data)
              THEN Fail("Invalid isoformat string", docs)
              ELSE LET updated == Written(reminder, Converted(update_data))
                   IN  Done(<<updated>>, [docs EXCEPT ![reminder_id] = updated])

\* mcp_server_lite.py, class ReminderUpdate: a field the body does not name
\* is None
BodyField(body, field, none) ==
    IF field \in DOMAIN body THEN body[field] ELSE none

\* mcp_server_lite.py, update_reminder: every field of the body is passed
\* on under a snake_case keyword, named by the client or not; the stored
\* fields the modelled documents have in common with these keywords are
\* title and recurrence, the other keywords (due_at, shared_with, ...) are
\* written beside the fields the queries read
HttpUpdateReminder(docs, reminder_id, userId, body) ==
    UpdateReminder(docs, reminder_id, userId,
        [title |-> BodyField(body, "title", NoTitle),
         recurrence |-> BodyField(body, "recurrence", NoRecurrence),
         due_at |-> BodyField(body, "dueAt", None),
         recurrence_end_date |-> BodyField(body, "recurrenceEndDate", None),
         weekly_days |-> BodyField(body, "weeklyDays", NoWeeklyDays),
         shared_with |-> BodyField(body, "sharedWith", <<>>)])

\* a plausible slip: the document is removed from the collection
DeleteReminder_hard(docs, clock, reminder_id, user_id) ==
    IF ~Exists(docs, reminder_id) THEN Fail("Reminder not found", docs)
    ELSE IF docs[reminder_id].ownerId # user_id THEN Fail("Access denied", docs)
    ELSE Done(<<>>, SelectSeqIdx(docs, (1..Len(docs)) \ {reminder_id}, 1))

\* delete_reminder(reminder_id, user_id)
DeleteReminder(docs, clock, reminder_id, user_id) ==
    IF ~Exists(docs, reminder_id) THEN Fail("Reminder not found", docs)
    ELSE LET reminder == docs[reminder_id] IN
         IF reminder.ownerId # user_id THEN Fail("Access denied", docs)
         ELSE Done(<<>>,
                  [docs EXCEPT ![reminder_id] =
                      Written(reminder,
                              [deleted |-> TRUE, deletedAt |-> clock,
                               lastModifiedBy |-> user_id,
                               version |-> reminder.version + 1])])

\* complete_reminder(reminder_id, user_id)
CompleteReminder(docs, clock, reminder_id, user_id) ==
    IF ~Exists(docs, reminder_id) THEN Fail("Reminder not found", docs)
    ELSE LET reminder == docs[reminder_id] IN
         IF /\ reminder.ownerId # user_id
            /\ user_id \notin SeqToSet(reminder.sharedWith)
         THEN Fail("Access denied", docs)
         ELSE LET completed_reminder ==
                      Written(reminder,
                              [isCompleted |-> "True", completedAt |-> clock,
                               lastModifiedBy |-> user_id,
                               version |-> reminder.version + 1])
              IN  Done(<<completed_reminder>>,
                       [docs EXCEPT ![reminder_id] = completed_reminder])

----------------------------------------------------------------------------
(* The inputs of the matcher specification.                                *)

Feb26(k) == Date(2026, 2, k)

\* days around the month ends and the leap days
SpecialDates ==
    { Date(2024, 2, 29), Date(2025, 2, 28), Date(2025, 3, 1), Date(2025, 3, 31),
      Date(2026, 1, 31), Date(2026, 2, 28), Date(2026, 3, 1), Date(2026, 3, 2),
      Date(2026, 3, 30), Date(2026, 3, 31), Date(2026, 4, 30), Date(2027, 2, 1),
      Date(2028, 2, 29) }

TargetDates == {Feb26(k) : k \in 1..WinLen} \cup SpecialDates

\* targets that reach the matcher without being normalized by the caller
RawTargets ==
    { DateTime(Feb26(3), 90, 0), DateTime(Feb26(3), 0, 30),
      DateTime(Feb26(1), 0, 30), DateTime(Feb26(16), 0, 30) }

Targets == {Midnight(d) : d \in TargetDates} \cup RawTargets

DueDates ==
    {Feb26(k) : k \in 1..DueLen}
        \cup {Date(2024, 2, 29), Date(2026, 1, 31), Date(2026, 3, 31)}

DueValues ==
    {DateTime(d, 480, 0) : d \in DueDates}
        \cup {IsoStr(d, 1439) : d \in DueDates}
        \cup {None, BadStr}

RecurrenceValues ==
    { NoRecurrence,
      Str(<<>>),
      Str(<<"n", "o", "n", "e">>),
      Str(<<" ", "D", "a", "i", "l", "y">>),
      Str(<<"w", "e", "e", "k", "l", "y">>),
      Str(<<"M", "O", "N", "T", "H", "L", "Y", " ">>),
      Str(<<"y", "e", "a", "r", "l", "y">>),
      Str(<<"h", "o", "u", "r", "l", "y">>),
      IntVal(5) }

WeeklyDaysValues ==
    { NoWeeklyDays, List(<<>>), List(<<7>>), List(<<1, 3, 5>>) }

\* <<recurrenceEnd, recurrenceEndDate>>
RecurrenceEndPairs ==
    { <<None, None>>,
      <<DateTime(Feb26(1), 0, 0), None>>,
      <<IsoStr(Feb26(3), 1439), None>>,
      <<DateTime(Date(2026, 1, 15), 600, 0), None>>,
      <<None, DateTime(Feb26(16), 1020, 0)>>,
      <<None, IsoStr(Date(2027, 2, 1), 0)>>,
      <<BadStr, None>>,
      <<BadStr, DateTime(Feb26(3), 0, 0)>>,
      <<IsoStr(Feb26(16), 0), DateTime(Feb26(1), 0, 0)>> }

MatchReminders ==
    { [dueAt |-> d, recurrence |-> r, weeklyDays |-> w,
       recurrenceEnd |-> e[1], recurrenceEndDate |-> e[2]] :
        d \in DueValues, r \in RecurrenceValues,
        w \in WeeklyDaysValues, e \in RecurrenceEndPairs }

NoReminder ==
    [dueAt |-> None, recurrence |-> NoRecurrence, weeklyDays |-> NoWeeklyDays,
     recurrenceEnd |-> None, recurrenceEndDate |-> None]

----------------------------------------------------------------------------
(* The inputs of the merge specification: two lists of at most MaxMergeLen *)
(* reminders; an id can occur in both lists and more than once in a list   *)
(* ({"id": doc.id, **doc.to_dict()} lets a stored id field replace the     *)
(* document id), and two ids can carry the same title.                     *)

MergeIds == 1..3
MergeTitles == {<<"a">>, <<"b">>}
MergeReminders == {[id |-> i, title |-> t] : i \in MergeIds, t \in MergeTitles}
MergeLists == UNION {[1..n -> MergeReminders] : n \in 0..MaxMergeLen}
NoMerge == [own |-> <<>>, shared |-> <<>>]

----------------------------------------------------------------------------
(* The inputs of the query specification: a collection of at most MaxDocs  *)
(* documents around Sunday 2026-02-22, read at 08:30 that day.             *)

Users == {"u1", "u2"}

Doc(owner, shared, due, rec, done) ==
    [id |-> 0, ownerId |-> owner, title |-> <<"t">>, sharedWith |-> shared,
     isShared |-> shared # <<>>, dueAt |-> due, recurrence |-> rec,
     weeklyDays |-> NoWeeklyDays, recurrenceEnd |-> None,
     recurrenceEndDate |-> None, isCompleted |-> done, completedAt |-> None,
     deleted |-> FALSE, deletedAt |-> None, lastModifiedBy |-> owner,
     version |-> 1]

DocPool ==
    { Doc("u1", <<>>, DateTime(Feb26(22), 540, 0), NoRecurrence, "False"),
      Doc("u2", <<"u1">>, IsoStr(Feb26(22), 540), NoRecurrence, "None"),
      Doc("u1", <<"u1", "u2">>, DateTime(Feb26(20), 480, 0),
          Str(<<"d", "a", "i", "l", "y">>), "False"),
      Doc("u2", <<"u1">>, DateTime(Feb26(22), 480, 0), NoRecurrence, "True"),
      Doc("u1", <<"u2">>, None, Str(<<"d", "a", "i", "l", "y">>), "False"),
      Doc("u2", <<>>, BadStr, NoRecurrence, "False"),
      Doc("u1", <<>>, DateTime(Feb26(23), 540, 0),
          Str(<<"w", "e", "e", "k", "l", "y">>), "False"),
      Doc("u2", <<"u1">>, None, NoRecurrence, "None"),
      Doc("u1", <<"u2">>, DateTime(Feb26(26), 540, 0), NoRecurrence, "False") }

\* {"id": doc.id, **doc.to_dict()}: documents stream in id order
Collections ==
    UNION { { [i \in 1..n |-> [q[i] EXCEPT !.id = i]] : q \in [1..n -> DocPool] } :
            n \in 0..MaxDocs }

DateStrings == {IsoStr(Feb26(k), 0) : k \in 21..23} \cup {BadStr}
SortKeys == {"dueDate", "priority", "none"}

NoOut ==
    [op |-> "none", user |-> "", date |-> None, days |-> 0, sort |-> "",
     include |-> FALSE, status |-> "", result |-> <<>>,
     id |-> 0, title |-> NoTitle, error |-> "", args |-> <<>>, via |-> ""]

Answer(op, user, date, days, sort, include, r) ==
    [op |-> op, user |-> user, date |-> date, days |-> days, sort |-> sort,
     include |-> include, status |-> r.status, result |-> r.result,
     id |-> 0, title |-> NoTitle, error |-> "", args |-> <<>>, via |-> ""]

\* the operations that read the collection and write nothing
QueryOps ==
    {"getForDate", "getToday", "getUpcoming", "getOverdue",
     "getAll", "getShared", "search", "getById", "summary"}

\* a call is taken when the last call was no query and did not fail: a query
\* and a failed call leave the collection as it was, so the calls after one
\* start from a collection already reached without it
Idle == out.op \notin QueryOps /\ out.status # "error"

\* the client processes that write to the collection (the HTTP server, the
\* MCP server): none of them is in a call
Procs == {"p1", "p2"}
NoCall == [pc |-> "ready", op |-> "", user |-> "", id |-> 0, status |-> "",
           data |-> <<>>]
NoCalls == [p \in Procs |-> NoCall]

----------------------------------------------------------------------------
(* The query specification: a collection is drawn, then one query reads it. *)

InitQuery ==
    /\ store \in Collections
    /\ now = DateTime(Feb26(22), 510, 0)
    /\ out = NoOut
    /\ mr = NoReminder
    /\ mt = None
    /\ mres = FALSE
    /\ ma = NoMerge
    /\ mo = <<>>
    /\ hist = <<>>
    /\ calls = NoCalls

GetForDate(user_id, date_str, include_completed) ==
    /\ Idle
    /\ out' = Answer("getForDate", user_id, date_str, 0, "", include_completed,
                     GetRemindersForDate(store, user_id, date_str, include_completed))
    /\ UNCHANGED <<store, now, mr, mt, mres, ma, mo, hist, calls>>

GetToday(user_id, include_completed) ==
    /\ Idle
    /\ out' = Answer("getToday", user_id, None, 0, "", include_completed,
                     GetTodayReminders(store, now, user_id, include_completed))
    /\ UNCHANGED <<store, now, mr, mt, mres, ma, mo, hist, calls>>

GetUpcoming(user_id, days, sort_by, include_completed) ==
    /\ Idle
    /\ out' = Answer("getUpcoming", user_id, None, days, sort_by, include_completed,
                     GetUpcomingReminders(store, now, user_id, days, sort_by,
                                          include_completed))
    /\ UNCHANGED <<store, now, mr, mt, mres, ma, mo, hist, calls>>

GetOverdue(user_id) ==
    /\ Idle
    /\ out' = Answer("getOverdue", user_id, None, 0, "", FALSE,
                     GetOverdueReminders(store, now, user_id))
    /\ UNCHANGED <<store, now, mr, mt, mres, ma, mo, hist, calls>>

GetSummary(user_id) ==
    /\ Idle
    /\ out' = Answer("summary", user_id, None, 0, "", TRUE,
                     GetRemindersSummary(store, now, user_id))
    /\ UNCHANGED <<store, now, mr, mt, mres, ma, mo, hist, calls>>

NextQuery ==
    \E user_id \in Users :
        \/ \E date_str \in DateStrings, include_completed \in BOOLEAN :
               GetForDate(user_id, date_str, include_completed)
        \/ \E include_completed \in BOOLEAN : GetToday(user_id, include_completed)
        \/ \E days \in -1..MaxWindow, sort_by \in SortKeys,
              include_completed \in BOOLEAN :
               GetUpcoming(user_id, days, sort_by, include_completed)
        \/ GetOverdue(user_id)
        \/ GetSummary(user_id)

SpecQuery == InitQuery /\ [][NextQuery]_vars

----------------------------------------------------------------------------
(* The matcher specification: a reminder is drawn, then _matches_on_date   *)
(* is applied to it for a target.                                          *)

InitMatch ==
    /\ store = <<>>
    /\ now = Midnight(Feb26(1))
    /\ out = NoOut
    /\ mr \in MatchReminders
    /\ mt = None
    /\ mres = FALSE
    /\ ma = NoMerge
    /\ mo = <<>>
    /\ hist = <<>>
    /\ calls = NoCalls

MatchOnDate(target_date) ==
    /\ mt = None        \* one evaluation per drawn reminder
    /\ mt' = target_date
    /\ mres' = MatchesOnDate(mr, target_date)
    /\ UNCHANGED <<store, now, out, mr, ma, mo, hist, calls>>

NextMatch == \E target_date \in Targets : MatchOnDate(target_date)

SpecMatch == InitMatch /\ [][NextMatch]_vars

----------------------------------------------------------------------------
(* The merge specification: two lists are drawn, merged, and the result is *)
(* merged with the second list once more.                                  *)

InitMerge ==
    /\ store = <<>>
    /\ now = Midnight(Feb26(1))
    /\ out = NoOut
    /\ mr = NoReminder
    /\ mt = None
    /\ mres = FALSE
    /\ ma \in [own : MergeLists, shared : MergeLists]
    /\ mo = <<>>
    /\ hist = <<>>
    /\ calls = NoCalls

Merge ==
    /\ mo = <<>>
    /\ mo' = <<MergeAndDeduplicate(ma.own, ma.shared)>>
    /\ UNCHANGED <<store, now, out, mr, mt, mres, ma, hist, calls>>

MergeAgain ==
    /\ Len(mo) = 1
    /\ mo' = Append(mo, MergeAndDeduplicate(mo[1], ma.shared))
    /\ UNCHANGED <<store, now, out, mr, mt, mres, ma, hist, calls>>

NextMerge == Merge \/ MergeAgain

SpecMerge == InitMerge /\ [][NextMerge]_vars

----------------------------------------------------------------------------
(* The malformed-document specification: the collection holds documents    *)
(* written by other clients with fields the matcher cannot use, and        *)
(* get_reminders_for_date reads it.                                        *)

FaultyPool ==
    { Doc("u1", <<>>, BadStr, Str(<<"d", "a", "i", "l", "y">>), "False"),
      Doc("u1", <<"u2">>, DateTime(Feb26(20), 480, 0), IntVal(5), "False"),
      [Doc("u2", <<"u1">>, DateTime(Feb26(20), 600, 0),
           Str(<<"d", "a", "i", "l", "y">>), "False")
          EXCEPT !.recurrenceEnd = BadStr],
      [Doc("u1", <<>>, DateTime(Feb26(15), 420, 0),
           Str(<<"w", "e", "e", "k", "l", "y">>), "False")
          EXCEPT !.weeklyDays = NotAList],
      [Doc("u1", <<"u2">>, DateTime(Feb26(16), 450, 0),
           Str(<<"w", "e", "e", "k", "l", "y">>), "False")
          EXCEPT !.weeklyDays = List(<<0, 9>>)],
      Doc("u2", <<"u1">>, DateTime(Feb26(22), 540, 0), NoRecurrence, "False") }

FaultyCollections ==
    UNION { { [i \in 1..n |-> [q[i] EXCEPT !.id = i]] : q \in [1..n -> FaultyPool] } :
            n \in 0..MaxDocs }

InitFaulty ==
    /\ store \in FaultyCollections
    /\ now = DateTime(Feb26(22), 510, 0)
    /\ out = NoOut
    /\ mr = NoReminder
    /\ mt = None
    /\ mres = FALSE
    /\ ma = NoMerge
    /\ mo = <<>>
    /\ hist = <<>>
    /\ calls = NoCalls

NextFaulty ==
    \E user_id \in Users, date_str \in DateStrings, include_completed \in BOOLEAN :
        GetForDate(user_id, date_str, include_completed)

SpecFaulty == InitFaulty /\ [][NextFaulty]_vars

----------------------------------------------------------------------------
(* The service specification: the collection starts empty; reminders are   *)
(* created, updated, completed, deleted and read by two users on Sunday    *)
(* 2026-02-22 at 08:30.                                                    *)

Daily == Str(<<"d", "a", "i", "l", "y">>)
\* the document ids the collection hands out
DocIds == 1..2

CreateTitles == {NoTitle, Str(<<>>), Str(<<" ", " ">>), Str(<<" ", "t">>)}
CreateDues == {IsoStr(Feb26(21), 540), BadStr}
CreateShares == {<<>>, <<"u2">>}
\* the **updates of update_reminder
Payloads ==
    { [title |-> Str(<<"s">>), version |-> 7],
      [title |-> Str(<<" ">>)],
      [title |-> NoTitle],
      [ownerId |-> "u2"],
      [sharedWith |-> <<>>],
      [dueAt |-> BadStr] }
\* the JSON bodies of the PUT requests: the fields a client names
ReminderUpdates ==
    { [title |-> Str(<<"s">>)],
      [sharedWith |-> <<>>],
      [title |-> Str(<<"s">>), sharedWith |-> <<>>] }

Reply(op, user, id, title, r) ==
    [op |-> op, user |-> user, date |-> None, days |-> 0, sort |-> "",
     include |-> FALSE, status |-> r.status, result |-> r.result,
     id |-> id, title |-> title, error |-> r.error, args |-> <<>>,
     via |-> "service"]

\* the successful mutations so far, over all documents
RECURSIVE Mutations(_)
Mutations(h) == IF h = <<>> THEN 0 ELSE Head(h).mutations + Mutations(Tail(h))

\* hist after a mutation of reminder_id that answered r
Mutated(h, reminder_id, r) ==
    IF r.status = "ok"
    THEN [h EXCEPT ![reminder_id].mutations = @ + 1]
    ELSE h

Init ==
    /\ store = <<>>
    /\ now = DateTime(Feb26(22), 510, 0)
    /\ out = NoOut
    /\ mr = NoReminder
    /\ mt = None
    /\ mres = FALSE
    /\ ma = NoMerge
    /\ mo = <<>>
    /\ hist = <<>>
    /\ calls = NoCalls

Create(user_id, title, due_at, shared_with) ==
    /\ Idle
    /\ Len(store) + 1 \in DocIds
    /\ LET r == CreateReminder(store, user_id, title, due_at, Daily, shared_with) IN
         /\ store' = r.docs
         /\ out' = [Reply("create", user_id, Len(r.docs), title, r)
                       EXCEPT !.date = due_at]
         /\ hist' = IF r.status = "ok"
                    THEN Append(hist, [creator |-> user_id, mutations |-> 0])
                    ELSE hist
    /\ UNCHANGED <<now, mr, mt, mres, ma, mo, calls>>

Update(reminder_id, user_id, updates) ==
    /\ Idle
    /\ LET r == UpdateReminder(store, reminder_id, user_id, updates) IN
         /\ r.status = "ok" => Mutations(hist) < MaxMutations
         /\ store' = r.docs
         /\ out' = [Reply("update", user_id, reminder_id, NoTitle, r)
                       EXCEPT !.args = updates]
         /\ hist' = Mutated(hist, reminder_id, r)
    /\ UNCHANGED <<now, mr, mt, mres, ma, mo, calls>>

\* PUT /api/reminders/{reminder_id}?userId=... with a ReminderUpdate body
HttpUpdate(reminder_id, userId, body) ==
    /\ Idle
    /\ LET r == HttpUpdateReminder(store, reminder_id, userId, body) IN
         /\ r.status = "ok" => Mutations(hist) < MaxMutations
         /\ store' = r.docs
         /\ out' = [Reply("update", userId, reminder_id, NoTitle, r)
                       EXCEPT !.args = body, !.via = "http"]
         /\ hist' = Mutated(hist, reminder_id, r)
    /\ UNCHANGED <<now, mr, mt, mres, ma, mo, calls>>

Delete(reminder_id, user_id) ==
    /\ Idle
    /\ LET r == DeleteReminder(store, now, reminder_id, user_id) IN
         /\ r.status = "ok" => Mutations(hist) < MaxMutations
         /\ store' = r.docs
         /\ out' = Reply("delete", user_id, reminder_id, NoTitle, r)
         /\ hist' = Mutated(hist, reminder_id, r)
    /\ UNCHANGED <<now, mr, mt, mres, ma, mo, calls>>

Complete(reminder_id, user_id) ==
    /\ Idle
    /\ LET r == CompleteReminder(store, now, reminder_id, user_id) IN
         /\ r.status = "ok" => Mutations(hist) < MaxMutations
         /\ store' = r.docs
         /\ out' = Reply("complete", user_id, reminder_id, NoTitle, r)
         /\ hist' = Mutated(hist, reminder_id, r)
    /\ UNCHANGED <<now, mr, mt, mres, ma, mo, calls>>

GetById(reminder_id, user_id) ==
    /\ Idle
    /\ out' = Reply("getById", user_id, reminder_id, NoTitle,
                    GetReminderById(store, reminder_id, user_id))
    /\ UNCHANGED <<store, now, mr, mt, mres, ma, mo, hist, calls>>

GetAll(user_id, status) ==
    /\ Idle
    /\ out' = [Answer("getAll", user_id, None, 0, "", status # "pending",
                      Ok(GetAllReminders(store, user_id, status)))
                  EXCEPT !.sort = status]
    /\ UNCHANGED <<store, now, mr, mt, mres, ma, mo, hist, calls>>

GetShared(user_id) ==
    /\ Idle
    /\ out' = Answer("getShared", user_id, None, 0, "", TRUE,
                     Ok(GetSharedReminders(store, user_id)))
    /\ UNCHANGED <<store, now, mr, mt, mres, ma, mo, hist, calls>>

Search(user_id, query) ==
    /\ Idle
    /\ out' = [Answer("search", user_id, None, 0, "", TRUE,
                      SearchUserReminders(store, user_id, query, "all"))
                  EXCEPT !.title = Str(query)]
    /\ UNCHANGED <<store, now, mr, mt, mres, ma, mo, hist, calls>>

Next ==
    \/ \E user_id \in Users, title \in CreateTitles, due_at \in CreateDues,
          shared_with \in CreateShares :
           Create(user_id, title, due_at, shared_with)
    \/ \E reminder_id \in DocIds, user_id \in Users :
           \/ \E updates \in Payloads : Update(reminder_id, user_id, updates)
           \/ Delete(reminder_id, user_id)
           \/ Complete(reminder_id, user_id)
           \/ GetById(reminder_id, user_id)
    \/ \E user_id \in Users :
           \/ \E status \in {"all", "pending", "completed"} : GetAll(user_id, status)
           \/ GetShared(user_id)
           \/ \E query \in {<<"T">>, <<"s">>} : Search(user_id, query)
           \/ GetSummary(user_id)
           \/ \E include_completed \in BOOLEAN :
                  \/ \E day \in 22..23 :
                         GetForDate(user_id, IsoStr(Feb26(day), 0), include_completed)
                  \/ GetToday(user_id, include_completed)
                  \/ GetUpcoming(user_id, MaxWindow, "dueDate", include_completed)
           \/ GetOverdue(user_id)

Spec == Init /\ [][Next]_vars

----------------------------------------------------------------------------
(* The edit specification: the same collection, edited through the service *)
(* function and through the HTTP endpoint, and listed.                     *)

\* **updates that name the title, the share fields and the deletion mark
EditPayloads ==
    { [title |-> Str(<<" ">>)],
      [sharedWith |-> <<>>],
      [isShared |-> TRUE],
      [deleted |-> FALSE] }

NextEdit ==
    \/ \E user_id \in Users, title \in CreateTitles, due_at \in CreateDues,
          shared_with \in CreateShares :
           Create(user_id, title, due_at, shared_with)
    \/ \E reminder_id \in DocIds, user_id \in Users :
           \/ \E updates \in EditPayloads : Update(reminder_id, user_id, updates)
           \/ \E body \in ReminderUpdates : HttpUpdate(reminder_id, user_id, body)
           \/ Delete(reminder_id, user_id)
           \/ Complete(reminder_id, user_id)
    \/ \E user_id \in Users : GetAll(user_id, "all")

SpecEdit == Init /\ [][NextEdit]_vars

----------------------------------------------------------------------------
(* The race specification: two processes mutate the reminder u1 shares     *)
(* with u2.  A mutation is two requests to the store, reminder_ref.get()   *)
(* and reminder_ref.update(data); the requests of the two processes        *)
(* interleave.                                                             *)

\* the mutations a process may be asked for
RaceCalls ==
    { [op |-> "update", user |-> "u1", updates |-> [title |-> Str(<<"s">>)]],
      [op |-> "update", user |-> "u2", updates |-> [title |-> Str(<<"s">>)]],
      [op |-> "complete", user |-> "u1", updates |-> <<>>],
      [op |-> "complete", user |-> "u2", updates |-> <<>>],
      [op |-> "delete", user |-> "u1", updates |-> <<>>] }

\* what the mutation answers on the collection it has read
Checked(call, docs, clock, reminder_id) ==
    CASE call.op = "update" ->
             UpdateReminder(docs, reminder_id, call.user, call.updates)
      [] call.op = "complete" -> CompleteReminder(docs, clock, reminder_id, call.user)
      [] call.op = "delete" -> DeleteReminder(docs, clock, reminder_id, call.user)

\* the fields it hands to reminder_ref.update, computed from the record read
UpdateFields(call, reminder, clock) ==
    CASE call.op = "update" ->
             Converted(UpdateData(reminder, call.user, call.updates))
      [] call.op = "complete" ->
             [isCompleted |-> "True", completedAt |-> clock,
              lastModifiedBy |-> call.user, version |-> reminder.version + 1]
      [] call.op = "delete" ->
             [deleted |-> TRUE, deletedAt |-> clock,
              lastModifiedBy |-> call.user, version |-> reminder.version + 1]

InitRace ==
    /\ store = << [Doc("u1", <<"u2">>, DateTime(Feb26(21), 540, 0), Daily, "False")
                      EXCEPT !.id = 1] >>
    /\ now = DateTime(Feb26(22), 510, 0)
    /\ out = NoOut
    /\ mr = NoReminder
    /\ mt = None
    /\ mres = FALSE
    /\ ma = NoMerge
    /\ mo = <<>>
    /\ hist = <<[creator |-> "u1", mutations |-> 0]>>
    /\ calls = NoCalls

\* reminder_ref.get() and the checks on the record read
ReadDoc(p, call, reminder_id) ==
    /\ calls[p].pc = "ready"
    /\ LET r == Checked(call, store, now, reminder_id) IN
         calls' = [calls EXCEPT ![p] =
                     [pc |-> IF r.status = "ok" THEN "read" ELSE "done",
                      op |-> call.op, user |-> call.user, id |-> reminder_id,
                      status |-> r.status,
                      data |-> IF r.status = "ok"
                               THEN UpdateFields(call, store[reminder_id], now)
                               ELSE <<>>]]
    /\ UNCHANGED <<store, now, out, mr, mt, mres, ma, mo, hist>>

\* reminder_ref.update(data)
WriteDoc(p) ==
    /\ calls[p].pc = "read"
    /\ store' = [store EXCEPT ![calls[p].id] = Written(@, calls[p].data)]
    /\ hist' = [hist EXCEPT ![calls[p].id].mutations = @ + 1]
    /\ calls' = [calls EXCEPT ![p].pc = "done"]
    /\ UNCHANGED <<now, out, mr, mt, mres, ma, mo>>

NextRace ==
    \E p \in Procs :
        \/ \E call \in RaceCalls : ReadDoc(p, call, 1)
        \/ WriteDoc(p)

SpecRace == InitRace /\ [][NextRace]_vars

----------------------------------------------------------------------------
(* Calendar vocabulary of the properties, stated without the operators of  *)
(* the model: day order by a decimal key, weekdays by Zeller's congruence. *)

DayKey(dt) == dt.y * 10000 + dt.m * 100 + dt.d

\* Monday=1 .. Sunday=7
ZellerWeekday(dt) ==
    LET mm == IF dt.m < 3 THEN dt.m + 12 ELSE dt.m
        yy == IF dt.m < 3 THEN dt.y - 1 ELSE dt.y
        k == yy % 100
        j == yy \div 100
        h == (dt.d + ((13 * (mm + 1)) \div 5) + k + (k \div 4) + (j \div 4) + 5 * j) % 7
    IN  ((h + 5) % 7) + 1

\* _matches_on_date has been applied to mr for a calendar day
Matched == mt.t = "dt" /\ mt.sec = 0
TargetDay == mt.date

HasDueDay == mr.dueAt.t \in {"dt", "iso"}
DueDay == mr.dueAt.date

OnOrAfterDue == HasDueDay /\ DayKey(TargetDay) >= DayKey(DueDay)
OnDueDay == HasDueDay /\ DayKey(TargetDay) = DayKey(DueDay)

\* the recurrence end in force: recurrenceEnd when it holds a value,
\* otherwise recurrenceEndDate; an unparsable value sets no end
EndValue == IF mr.recurrenceEnd.t \in {"none", "empty"} THEN mr.recurrenceEndDate
            ELSE mr.recurrenceEnd
HasEndDay == EndValue.t \in {"dt", "iso"}
EndDay == EndValue.date
NoRecurrenceEnd == mr.recurrenceEnd = None /\ mr.recurrenceEndDate = None
NotAfterEnd == HasEndDay => DayKey(TargetDay) <= DayKey(EndDay)

\* the spellings of each recurrence kind among the values drawn
DailySpellings == { Str(<<" ", "D", "a", "i", "l", "y">>) }
WeeklySpellings == { Str(<<"w", "e", "e", "k", "l", "y">>) }
MonthlySpellings == { Str(<<"M", "O", "N", "T", "H", "L", "Y", " ">>) }
YearlySpellings == { Str(<<"y", "e", "a", "r", "l", "y">>) }
\* none, absent, empty or an unrecognized string
OtherSpellings ==
    { NoRecurrence, Str(<<>>), Str(<<"n", "o", "n", "e">>),
      Str(<<"h", "o", "u", "r", "l", "y">>) }

HasWeeklyDays == mr.weeklyDays.t = "list" /\ mr.weeklyDays.l # <<>>
WeeklyDaySet == {mr.weeklyDays.l[i] : i \in DOMAIN mr.weeklyDays.l}

----------------------------------------------------------------------------
(* Properties of the matcher, checked under SpecMatch.                     *)

\* C2: a weekly reminder with a non-empty weeklyDays and no recurrenceEnd
\* matches day d iff d is on or after the due day and the ISO weekday of d
\* (Monday=1 .. Sunday=7) is in weeklyDays; dueAt 2026-02-01 with
\* weeklyDays=[7] matches 2026-02-22 and does not match 2026-02-21.
C2_WeeklyDays ==
    (Matched /\ mr.recurrence \in WeeklySpellings /\ HasWeeklyDays /\ NoRecurrenceEnd)
        => /\ mres <=> (OnOrAfterDue /\ ZellerWeekday(TargetDay) \in WeeklyDaySet)
           /\ (HasDueDay /\ DueDay = Date(2026, 2, 1) /\ mr.weeklyDays.l = <<7>>)
                => /\ TargetDay = Date(2026, 2, 22) => mres
                   /\ TargetDay = Date(2026, 2, 21) => ~mres

\* due on Monday 2026-02-02 with weeklyDays=[1,3,5], asked for Wednesday 02-04
C2_Witness ==
    /\ Matched /\ mr.recurrence \in WeeklySpellings /\ NoRecurrenceEnd
    /\ HasDueDay /\ DueDay = Date(2026, 2, 2)
    /\ mr.weeklyDays.l = <<1, 3, 5>>
    /\ TargetDay = Date(2026, 2, 4)
    /\ mres

\* C3: a daily reminder matches every day on or after the due day and no
\* earlier day, except that days strictly after the recurrenceEnd day do
\* not match.
C3_Daily ==
    (Matched /\ mr.recurrence \in DailySpellings)
        => (mres <=> (OnOrAfterDue /\ NotAfterEnd))

\* a daily reminder with a recurrenceEnd, asked for its own due day
C3_Witness ==
    /\ Matched /\ mr.recurrence \in DailySpellings
    /\ OnDueDay /\ mres /\ HasEndDay

\* C4 as stated: with recurrence none, absent, empty or unrecognized the
\* reminder matches d iff d is the calendar day of dueAt, for every d.
C4_Original ==
    (Matched /\ mr.recurrence \in OtherSpellings) => (mres <=> OnDueDay)

\* C4 amended: with recurrence none, absent, empty or unrecognized the
\* reminder matches d iff d is the calendar day of dueAt and d is not after
\* the recurrenceEnd day.
C4_NoneSameDay ==
    (Matched /\ mr.recurrence \in OtherSpellings)
        => (mres <=> (OnDueDay /\ NotAfterEnd))

\* an unrecognized recurrence asked for its due day
C4_Witness ==
    /\ Matched /\ mr.recurrence = Str(<<"h", "o", "u", "r", "l", "y">>)
    /\ OnDueDay /\ mres

\* C5 as stated: a monthly reminder matches d iff d is on or after the due
\* day and has the due day's day-of-month.
C5_Original ==
    (Matched /\ mr.recurrence \in MonthlySpellings)
        => (mres <=> (OnOrAfterDue /\ TargetDay.d = DueDay.d))

\* C5 amended: a monthly reminder matches d iff d is on or after the due day,
\* has the due day's day-of-month and is not after the recurrenceEnd day;
\* no end-of-month clamping, so a reminder due on day 31 matches no day of a
\* month without a day 31.
C5_Monthly ==
    (Matched /\ mr.recurrence \in MonthlySpellings)
        => /\ mres <=> (OnOrAfterDue /\ TargetDay.d = DueDay.d /\ NotAfterEnd)
           /\ (HasDueDay /\ DueDay.d = 31 /\ TargetDay.m \in {2, 4, 6, 9, 11}) => ~mres

\* due 2026-01-31, asked for 2026-04-30: the month has no day 31, no match
C5_Witness ==
    /\ Matched /\ mr.recurrence \in MonthlySpellings /\ NoRecurrenceEnd
    /\ HasDueDay /\ DueDay = Date(2026, 1, 31)
    /\ TargetDay = Date(2026, 4, 30)
    /\ ~mres

\* C6 as stated: a weekly reminder without weeklyDays matches d iff d is on
\* or after the due day and has the due day's ISO weekday.
C6_Original ==
    (Matched /\ mr.recurrence \in WeeklySpellings /\ ~HasWeeklyDays)
        => (mres <=> (OnOrAfterDue /\ ZellerWeekday(TargetDay) = ZellerWeekday(DueDay)))

\* C6 amended: a weekly reminder without weeklyDays matches d iff d is on or
\* after the due day, has the due day's ISO weekday and is not after the
\* recurrenceEnd day.
C6_WeeklyDefault ==
    (Matched /\ mr.recurrence \in WeeklySpellings /\ ~HasWeeklyDays)
        => (mres <=> (/\ OnOrAfterDue
                      /\ ZellerWeekday(TargetDay) = ZellerWeekday(DueDay)
                      /\ NotAfterEnd))

\* due 2026-02-02 without weeklyDays, asked for 2026-02-16, two weeks later
C6_Witness ==
    /\ Matched /\ mr.recurrence \in WeeklySpellings /\ mr.weeklyDays = NoWeeklyDays
    /\ HasDueDay /\ DueDay = Date(2026, 2, 2)
    /\ TargetDay = Date(2026, 2, 16)
    /\ mres

\* C7 as stated: a yearly reminder matches d iff d is on or after the due day
\* and has the month and day-of-month of dueAt.
C7_Original ==
    (Matched /\ mr.recurrence \in YearlySpellings)
        => (mres <=> (OnOrAfterDue /\ TargetDay.m = DueDay.m /\ TargetDay.d = DueDay.d))

\* C7 amended: a yearly reminder matches d iff d is on or after the due day,
\* has the month and day-of-month of dueAt and is not after the recurrenceEnd
\* day; a reminder due on Feb 29 matches in leap years only.
C7_Yearly ==
    (Matched /\ mr.recurrence \in YearlySpellings)
        => (mres <=> (/\ OnOrAfterDue
                      /\ TargetDay.m = DueDay.m
                      /\ TargetDay.d = DueDay.d
                      /\ NotAfterEnd))

\* due 2024-02-29, asked for 2028-02-29
C7_Witness ==
    /\ Matched /\ mr.recurrence \in YearlySpellings
    /\ HasDueDay /\ DueDay = Date(2024, 2, 29)
    /\ TargetDay = Date(2028, 2, 29)
    /\ mres

\* what the recurrence rule alone says, the end date left aside
RuleSays ==
    IF mr.recurrence \in DailySpellings THEN OnOrAfterDue
    ELSE IF mr.recurrence \in WeeklySpellings
    THEN /\ OnOrAfterDue
         /\ IF HasWeeklyDays THEN ZellerWeekday(TargetDay) \in WeeklyDaySet
            ELSE ZellerWeekday(TargetDay) = ZellerWeekday(DueDay)
    ELSE IF mr.recurrence \in MonthlySpellings
    THEN OnOrAfterDue /\ TargetDay.d = DueDay.d
    ELSE IF mr.recurrence \in YearlySpellings
    THEN OnOrAfterDue /\ TargetDay.m = DueDay.m /\ TargetDay.d = DueDay.d
    ELSE IF mr.recurrence \in OtherSpellings THEN OnDueDay
    ELSE FALSE

\* C8: recurrenceEnd is an inclusive boundary at day granularity for every
\* recurrence kind: no day strictly after the recurrenceEnd day matches; on
\* the recurrenceEnd day the answer is the recurrence rule's, whatever the
\* times of day of recurrenceEnd and dueAt; a daily reminder whose
\* recurrenceEnd is on the due day matches the due day and no other day.
C8_RecurrenceEndInclusive ==
    (Matched /\ HasEndDay)
        => /\ DayKey(TargetDay) > DayKey(EndDay) => ~mres
           /\ DayKey(TargetDay) = DayKey(EndDay) => (mres <=> RuleSays)
           /\ (mr.recurrence \in DailySpellings /\ HasDueDay /\ EndDay = DueDay)
                => (mres <=> TargetDay = DueDay)

\* a daily reminder due 2026-02-01 08:00 whose recurrenceEnd is 2026-02-01
\* 00:00, asked for 2026-02-01
C8_Witness ==
    /\ Matched /\ mr.recurrence \in DailySpellings
    /\ HasDueDay /\ HasEndDay /\ EndDay = DueDay
    /\ mr.dueAt.min > EndValue.min
    /\ TargetDay = DueDay
    /\ mres

\* C9: under every recurrence value and every recurrenceEnd, no day strictly
\* before the calendar day of dueAt matches.
C9_NeverBeforeDue ==
    (Matched /\ HasDueDay /\ DayKey(TargetDay) < DayKey(DueDay)) => ~mres

\* a yearly reminder due 2026-03-31 asked for 2025-03-31
C9_Witness ==
    /\ Matched /\ mr.recurrence \in YearlySpellings
    /\ HasDueDay /\ DueDay = Date(2026, 3, 31)
    /\ TargetDay = Date(2025, 3, 31)
    /\ ~mres

----------------------------------------------------------------------------
(* Properties of the date queries, checked under SpecQuery.                *)

Result == out.result
AnsweredOk(op) == out.op = op /\ out.status = "ok"

\* the reader's own and shared documents, after the completion filter
KeptByFilter(i) == out.include \/ store[i].isCompleted # "True"
OwnIds == {i \in 1..Len(store) : store[i].ownerId = out.user /\ KeptByFilter(i)}
SharedIds ==
    {i \in 1..Len(store) :
        /\ \E k \in 1..Len(store[i].sharedWith) : store[i].sharedWith[k] = out.user
        /\ KeptByFilter(i)}
\* position in the merge: own documents first, then the shared ones
MergeRank(i) == IF i \in OwnIds THEN i ELSE Len(store) + i

MatchingIds ==
    {i \in OwnIds \cup SharedIds : MatchesOnDate(store[i], Midnight(out.date.date))}

\* C1: getForDate returns exactly the merged own+shared reminders that match
\* the day, each id once, in non-decreasing minute-of-day of dueAt, and
\* reminders with the same minute-of-day in merge order (own before shared,
\* fetch order within each).
C1_GetForDate ==
    AnsweredOk("getForDate")
        => /\ {Result[k].id : k \in 1..Len(Result)} = MatchingIds
           /\ Len(Result) = Cardinality(MatchingIds)
           /\ \A k \in 1..Len(Result) : Result[k] = store[Result[k].id]
           /\ \A k, l \in 1..Len(Result) :
                k < l => /\ Result[k].dueAt.min <= Result[l].dueAt.min
                         /\ Result[k].dueAt.min = Result[l].dueAt.min
                              => MergeRank(Result[k].id) < MergeRank(Result[l].id)

\* three matches, one both owned and shared, and a tie at the same minute
\* between an own reminder and a shared one of smaller id
C1_Witness ==
    /\ AnsweredOk("getForDate")
    /\ Len(Result) = 3
    /\ OwnIds \cap SharedIds # {}
    /\ Result[1].dueAt.min < Result[2].dueAt.min
    /\ Result[2].dueAt.min = Result[3].dueAt.min
    /\ Result[2].id > Result[3].id

\* C10: a reminder whose dueAt is absent is in the result of no date-based
\* query (getForDate, getToday, getUpcoming, getOverdue).
C10_NoDueNeverListed ==
    (out.op \in {"getForDate", "getToday", "getUpcoming", "getOverdue"}
        /\ out.status = "ok")
        => \A k \in 1..Len(Result) : Result[k].dueAt # None

\* getOverdue answered with an overdue reminder while the reader also owns a
\* pending reminder without dueAt
C10_Witness ==
    /\ AnsweredOk("getOverdue")
    /\ Result # <<>>
    /\ \E i \in 1..Len(store) :
          /\ store[i].ownerId = out.user
          /\ store[i].dueAt = None
          /\ store[i].isCompleted # "True"

----------------------------------------------------------------------------
(* Properties of the matcher's error handling, checked under SpecFaulty.   *)

\* what the matcher cannot evaluate: an unparsable dueAt, a recurrence that
\* is no string
Unusable(r) == r.dueAt.t = "bad" \/ r.recurrence.t = "int"
\* what it evaluates as if absent: an unparsable recurrenceEnd, a weeklyDays
\* that is no list of weekday numbers
Ignored(r) ==
    \/ r.recurrenceEnd.t = "bad"
    \/ r.weeklyDays.t = "str"
    \/ r.weeklyDays.t = "list" /\ \E k \in DOMAIN r.weeklyDays.l :
                                      r.weeklyDays.l[k] \notin 1..7

\* the rule of a usable document for a day, an unparsable recurrenceEnd and
\* a weeklyDays that is no list taken as absent
LenientRule(r, day) ==
    /\ DayKey(day) >= DayKey(r.dueAt.date)
    /\ r.recurrenceEnd.t \in {"dt", "iso"} => DayKey(day) <= DayKey(r.recurrenceEnd.date)
    /\ IF r.recurrence = NoRecurrence THEN day = r.dueAt.date
       ELSE IF r.recurrence = Str(<<"d", "a", "i", "l", "y">>) THEN TRUE
       ELSE IF r.weeklyDays.t = "list" /\ r.weeklyDays.l # <<>>
       THEN \E k \in DOMAIN r.weeklyDays.l : r.weeklyDays.l[k] = ZellerWeekday(day)
       ELSE ZellerWeekday(day) = ZellerWeekday(r.dueAt.date)

AskedForDay == out.op = "getForDate" /\ out.date.t = "iso"

----------------------------------------------------------------------------
(* Properties of the merge, checked under SpecMerge.                       *)

Merged == Len(mo) >= 1
OwnList == ma.own
SharedList == ma.shared
IdsOf(q) == {q[i].id : i \in DOMAIN q}

\* the positions of a list that hold the first entry of their id
FirstOfId(q) == {i \in DOMAIN q : \A j \in DOMAIN q : j < i => q[j].id # q[i].id}
\* the positions of sharedSet whose id was not seen before
NewInShared == {i \in FirstOfId(SharedList) : SharedList[i].id \notin IdsOf(OwnList)}
\* the k-th smallest element of a set of positions
Nth(S, k) == CHOOSE i \in S : Cardinality({j \in S : j <= i}) = k

\* C12: every id of ownSet or sharedSet occurs exactly once in the merge;
\* the entries taken from ownSet come first, in ownSet's order, then the
\* entries of sharedSet whose id was not seen before, in sharedSet's order;
\* of an id in both lists the ownSet copy is kept; two reminders with the
\* same title and different ids are both kept.
C12_Merge ==
    Merged =>
        LET m == mo[1]
            nOwn == Cardinality(FirstOfId(OwnList))
        IN  /\ IdsOf(m) = IdsOf(OwnList) \cup IdsOf(SharedList)
            /\ \A k, l \in DOMAIN m : m[k].id = m[l].id => k = l
            /\ Len(m) = nOwn + Cardinality(NewInShared)
            /\ \A k \in 1..nOwn : m[k] = OwnList[Nth(FirstOfId(OwnList), k)]
            /\ \A k \in 1..Cardinality(NewInShared) :
                   m[nOwn + k] = SharedList[Nth(NewInShared, k)]
            /\ \A i \in DOMAIN OwnList, j \in DOMAIN SharedList :
                   (OwnList[i].id = SharedList[j].id /\ i \in FirstOfId(OwnList))
                       => \E k \in DOMAIN m : m[k] = OwnList[i]
            /\ \A i \in DOMAIN OwnList, j \in DOMAIN SharedList :
                   (OwnList[i].title = SharedList[j].title
                        /\ OwnList[i].id # SharedList[j].id)
                       => {OwnList[i].id, SharedList[j].id} \subseteq IdsOf(m)

\* ownSet <<1 "a", 2 "a">> merged with sharedSet <<3 "a", 1 "b">>: three
\* entries with one title are kept, and of id 1 the ownSet copy
C12_Witness ==
    /\ Merged
    /\ Len(OwnList) = 2 /\ Len(SharedList) = 2
    /\ OwnList[1].title = <<"a">> /\ OwnList[2].title = <<"a">>
    /\ OwnList[1].id # OwnList[2].id
    /\ SharedList[1].id \notin IdsOf(OwnList) /\ SharedList[1].title = <<"a">>
    /\ SharedList[2].id = OwnList[1].id /\ SharedList[2].title = <<"b">>
    /\ mo[1] = <<OwnList[1], OwnList[2], SharedList[1]>>

\* C13 as stated: merge(merge(A, B), B) = merge(A, B), and A is, element for
\* element, the prefix of merge(A, B), for all lists A and B.
C13_Original ==
    /\ Len(mo) = 2 => mo[2] = mo[1]
    /\ Merged => /\ Len(mo[1]) >= Len(OwnList)
                 /\ SubSeq(mo[1], 1, Len(OwnList)) = OwnList

\* C13: merge(merge(A, B), B) = merge(A, B); the prefix of merge(A, B) is A
\* without the entries whose id occurred earlier in A, so A itself, element
\* for element, when no id occurs twice in A.
C13_Idempotent ==
    /\ Len(mo) = 2 => mo[2] = mo[1]
    /\ Merged =>
          LET nOwn == Cardinality(FirstOfId(OwnList)) IN
          /\ Len(mo[1]) >= nOwn
          /\ \A k \in 1..nOwn : mo[1][k] = OwnList[Nth(FirstOfId(OwnList), k)]
          /\ FirstOfId(OwnList) = DOMAIN OwnList
                => SubSeq(mo[1], 1, Len(OwnList)) = OwnList

\* both merges done on lists that share an id, the second list adding one
\* more, and A kept whole at the front
C13_Witness ==
    /\ Len(mo) = 2
    /\ Len(OwnList) = 2 /\ FirstOfId(OwnList) = DOMAIN OwnList
    /\ IdsOf(OwnList) \cap IdsOf(SharedList) # {}
    /\ Len(mo[1]) = 3
    /\ SubSeq(mo[1], 1, 2) = OwnList
    /\ mo[2] = mo[1]

----------------------------------------------------------------------------
(* Properties of the mutations and of reading after them, checked under    *)
(* Spec.  In a step, out' names the call made (operation, caller, id) and  *)
(* how it ended; store is the collection before the call, store' after.    *)

MutationOps == {"update", "complete", "delete"}
ListingOps ==
    {"getAll", "getForDate", "getToday", "getUpcoming", "getOverdue", "search"}
\* the documents a user owns or is shared on
Visible(u) ==
    {i \in DOMAIN store :
        \/ store[i].ownerId = u
        \/ \E k \in DOMAIN store[i].sharedWith : store[i].sharedWith[k] = u}

\* C14: once delete(id, owner) has succeeded the reminder is in the result
\* of no listing query (getAll, getForDate, getToday, getUpcoming,
\* getOverdue, search) of any user and is not counted by the summary, in
\* every later state.
C14_DeletedNeverListed ==
    /\ (out.op \in ListingOps /\ out.status = "ok")
          => \A k \in 1..Len(Result) : ~store[Result[k].id].deleted
    /\ (out.op = "summary" /\ out.status = "ok")
          => Result[1].total
               = Cardinality({i \in Visible(out.user) : ~store[i].deleted})

\* the call of a step: its operation, caller and document, and the document
\* as it was before the call
CallOf(ops) == out'.op \in ops
CallOk == out'.status = "ok"
Target == store[out'.id]
OnStored == out'.id \in DOMAIN store
ByOwner == OnStored /\ Target.ownerId = out'.user
BySharedUser ==
    /\ OnStored
    /\ \E k \in DOMAIN Target.sharedWith : Target.sharedWith[k] = out'.user

\* C15: update and delete succeed only for the owner; complete succeeds
\* only for the owner or a user in sharedWith; a user in sharedWith who is
\* not the owner completes but is answered "Access denied" by update and
\* delete; a denied call leaves every stored record, version included, as
\* it was.
C15_MutationRights ==
    [][ /\ (CallOf({"update", "delete"}) /\ CallOk) => ByOwner
        /\ (CallOf({"complete"}) /\ CallOk) => (ByOwner \/ BySharedUser)
        /\ (CallOf(MutationOps) /\ BySharedUser /\ ~ByOwner)
              => IF out'.op = "complete" THEN CallOk
                 ELSE out'.status = "error" /\ out'.error = "Access denied"
        /\ (CallOf(MutationOps) /\ out'.error = "Access denied")
              => store' = store
      ]_vars

\* a user in sharedWith who is not the owner has completed the reminder
C15_Witness ==
    /\ out.op = "complete" /\ out.status = "ok"
    /\ store[out.id].ownerId # out.user
    /\ store[out.id].isCompleted = "True"
    /\ store[out.id].lastModifiedBy = out.user

\* C16: version is 1 after create; every successful update, complete and
\* delete adds exactly 1, whatever the payload of the update; a failed call
\* leaves it as it was; after n successful mutations version is 1 + n.
C16_Version ==
    [][ /\ (CallOf({"create"}) /\ CallOk)
              => /\ Len(store') = Len(store) + 1
                 /\ store'[Len(store')].version = 1
        /\ (CallOf(MutationOps) /\ CallOk)
              => store'[out'.id].version = Target.version + 1
        /\ (CallOf(MutationOps \cup {"create"}) /\ out'.status = "error")
              => store' = store
        /\ \A i \in DOMAIN store' : store'[i].version = 1 + hist'[i].mutations
      ]_vars

\* the second successful mutation of a reminder is an update whose payload
\* names a version of its own (7): the stored version is 3
C16_Witness ==
    /\ out.op = "update" /\ out.status = "ok"
    /\ store[out.id].title = <<"s">>
    /\ hist[out.id].mutations = 2
    /\ store[out.id].version = 3

\* a title that is None, empty or made of spaces
BlankTitle(title) == title.t = "none" \/ \A k \in DOMAIN title.s : title.s[k] = " "

Inserted ==
    /\ CallOk
    /\ Len(store') = Len(store) + 1
    /\ SubSeq(store', 1, Len(store)) = store
    /\ store'[Len(store')].isCompleted = "False"
    /\ store'[Len(store')].deleted = FALSE
    /\ store'[Len(store')].ownerId = out'.user
NotInserted(error) ==
    out'.status = "error" /\ out'.error = error /\ store' = store

C18_GetById ==
    out.op = "getById"
        => IF out.id \notin DOMAIN store \/ store[out.id].deleted
           THEN out.status = "error" /\ out.error = "Reminder not found"
           ELSE IF out.id \notin Visible(out.user)
           THEN out.status = "error" /\ out.error = "Access denied"
           ELSE out.status = "ok" /\ Result = <<store[out.id]>>

\* C19: a successful delete sets deleted, stamps deletedAt and changes no
\* business field (title, dueAt, recurrence, sharedWith, isCompleted,
\* ownerId); no call removes a record: the stored ids never shrink.
C19_SoftDelete ==
    [][ /\ (CallOf({"delete"}) /\ CallOk)
              => /\ OnStored
                 /\ store' = [store EXCEPT ![out'.id] =
                                 [Target EXCEPT !.deleted = TRUE,
                                                !.deletedAt = now,
                                                !.lastModifiedBy = out'.user,
                                                !.version = Target.version + 1]]
                 /\ store'[out'.id].deletedAt # None
        /\ Len(store') >= Len(store)
        /\ \A i \in DOMAIN store : store'[i].id = store[i].id
      ]_vars

\* a completed reminder shared with u2 has been deleted by its owner, a
\* second reminder standing beside it
C19_Witness ==
    /\ out.op = "delete" /\ out.status = "ok"
    /\ Len(store) = 2
    /\ store[out.id].deleted /\ store[out.id].deletedAt = now
    /\ store[out.id].isCompleted = "True"
    /\ store[out.id].sharedWith = <<"u2">>
    /\ store[out.id].version = 3

\* C20: in every state reached by create, update (with any payload),
\* complete and delete, the ownerId of each stored reminder is the user
\* who created it.
C20_OwnerImmutable ==
    \A i \in DOMAIN store : store[i].ownerId = hist[i].creator

\* the request of the call of a step names the field
Names(field) == field \in DOMAIN out'.args
\* a stored text that is empty or made of spaces
BlankText(text) == \A k \in DOMAIN text : text[k] = " "

\* C21: in every state reached by create and update calls the title of
\* every stored reminder is a string that is neither empty nor made of
\* whitespace; an update whose request sets the title to an empty or
\* whitespace string fails and leaves the record as it was; an update by
\* the owner whose request does not name the title (nor an unparsable
\* date) succeeds and keeps the title.
C21_TitleNeverBlank ==
    [][ /\ \A i \in DOMAIN store' : ~BlankText(store'[i].title)
        /\ (CallOf({"update"}) /\ Names("title") /\ BlankTitle(out'.args.title))
              => out'.status = "error" /\ store' = store
        /\ (CallOf({"update"}) /\ ByOwner /\ ~Names("title") /\ ~Names("dueAt"))
              => CallOk /\ store'[out'.id].title = Target.title
      ]_vars

----------------------------------------------------------------------------
(* Properties of getUpcoming, checked under SpecQuery.                     *)

\* the days of the window: today + k, 0 <= k < days (the clock stands in
\* the middle of a month)
WindowDay(k) == [now.date EXCEPT !.d = @ + k]
MatchedOffsets(i) ==
    {k \in 0..(out.days - 1) : MatchesOnDate(store[i], Midnight(WindowDay(k)))}
InWindowIds == {i \in OwnIds \cup SharedIds : MatchedOffsets(i) # {}}

\* C22: getUpcoming returns exactly the reminders of the merged own+shared
\* set that match at least one day today+k, 0 <= k < windowDays, each id
\* once however many days it matches; with windowDays <= 0 the result is
\* empty; a pending reminder whose occurrences all lie outside the window is
\* not returned.
C22_Upcoming ==
    AnsweredOk("getUpcoming")
        => /\ {Result[k].id : k \in 1..Len(Result)} = InWindowIds
           /\ Len(Result) = Cardinality(InWindowIds)
           /\ \A k \in 1..Len(Result) : Result[k] = store[Result[k].id]
           /\ out.days <= 0 => Result = <<>>

\* a window of two days: a daily reminder that matches both days is listed
\* once, beside a reminder that matches the second day only, while the
\* reader's pending reminder due four days ahead is left out
C22_Witness ==
    /\ AnsweredOk("getUpcoming") /\ out.days = 2
    /\ \E k \in 1..Len(Result) : MatchedOffsets(Result[k].id) = {0, 1}
    /\ \E k \in 1..Len(Result) : MatchedOffsets(Result[k].id) = {1}
    /\ \E i \in OwnIds \ InWindowIds :
           /\ store[i].dueAt.t = "dt"
           /\ store[i].dueAt.date = [now.date EXCEPT !.d = @ + 4]

\* the rank of a reminder's status at the clock: completed 6, no dueAt 5,
\* dueAt before now 0, dueAt later today 1, tomorrow 2, within seven days
\* 3, later 4 (the dates of the documents lie in the month of the clock)
StatusRank(r) ==
    IF r.isCompleted = "True" THEN 6
    ELSE IF r.dueAt.t \notin {"dt", "iso"} THEN 5
    ELSE LET ahead == r.dueAt.date.d - now.date.d IN
         IF ahead < 0 \/ (ahead = 0 /\ r.dueAt.min < now.min) THEN 0
         ELSE IF ahead = 0 THEN 1
         ELSE IF ahead = 1 THEN 2
         ELSE IF ahead <= 7 THEN 3
         ELSE 4

\* first day of the window on which the reminder matches
FirstOffset(i) == CHOOSE k \in MatchedOffsets(i) : \A j \in MatchedOffsets(i) : k <= j

\* C23: getUpcoming with sortBy = priority returns its reminders in
\* non-decreasing status rank overdue(0) < due-today(1) < due-tomorrow(2) <
\* due-this-week(3) < upcoming(4) < no-due-date(5) < completed(6), the status
\* derived from isCompleted, dueAt and the current time; reminders of equal
\* rank keep their first-seen order (by first matching day, then merge
\* order).
C23_PriorityOrder ==
    (AnsweredOk("getUpcoming") /\ out.sort = "priority")
        => \A k, l \in 1..Len(Result) :
              k < l => /\ StatusRank(Result[k]) <= StatusRank(Result[l])
                       /\ StatusRank(Result[k]) = StatusRank(Result[l])
                            => \/ FirstOffset(Result[k].id) < FirstOffset(Result[l].id)
                               \/ /\ FirstOffset(Result[k].id) = FirstOffset(Result[l].id)
                                  /\ MergeRank(Result[k].id) < MergeRank(Result[l].id)

\* overdue, due-today and due-tomorrow reminders in that order, the overdue
\* one stored after the one due today
C23_Witness ==
    /\ AnsweredOk("getUpcoming") /\ out.sort = "priority"
    /\ Len(Result) = 3
    /\ StatusRank(Result[1]) = 0
    /\ StatusRank(Result[2]) = 1
    /\ StatusRank(Result[3]) = 2
    /\ Result[1].id > Result[2].id

\* C27: in every state reached by create and update calls each stored
\* reminder has isShared = (sharedWith is non-empty); an update whose
\* request names a share list, sent to the service function or to the HTTP
\* endpoint, leaves the reminder with that share list and isShared
\* recomputed from it.
C27_IsSharedFollows ==
    [][ /\ \A i \in DOMAIN store' :
              store'[i].isShared = (store'[i].sharedWith # <<>>)
        /\ (CallOf({"update"}) /\ CallOk /\ Names("sharedWith"))
              => /\ store'[out'.id].sharedWith = out'.args.sharedWith
                 /\ store'[out'.id].isShared = (out'.args.sharedWith # <<>>)
      ]_vars

\* C29: once delete has succeeded on a reminder its deleted flag is true
\* in every later state: no update (whatever its payload), complete or
\* delete by any user resets it.
C29_DeletedForGood ==
    [][ \A i \in DOMAIN store : store[i].deleted => store'[i].deleted ]_vars

CompletedIds == {i \in DOMAIN store : store[i].isCompleted = "True"}
ResultIds == {Result[k].id : k \in 1..Len(Result)}

\* C24: after complete has succeeded the record has isCompleted true; a
\* completed record is in no result of getForDate, getToday or getUpcoming
\* asked without completed reminders nor of getOverdue, for its owner and
\* for every shared user; it is in the result of getForDate asked with
\* completed reminders for every day it matches, days after the completion
\* included.
C24_CompletedLeavesPending ==
    /\ (out.op = "complete" /\ out.status = "ok")
          => out.id \in CompletedIds /\ store[out.id].completedAt = now
    /\ (out.op \in {"getForDate", "getToday", "getUpcoming"}
          /\ out.status = "ok" /\ ~out.include)
          => ResultIds \cap CompletedIds = {}
    /\ AnsweredOk("getOverdue") => ResultIds \cap CompletedIds = {}
    /\ (AnsweredOk("getForDate") /\ out.include)
          => \A i \in CompletedIds \cap Visible(out.user) :
                MatchesOnDate(store[i], Midnight(out.date.date)) => i \in ResultIds

\* a shared user reads the day after today with completed reminders and
\* is given a completed reminder of another user
C24_Witness ==
    /\ AnsweredOk("getForDate") /\ out.include
    /\ out.date.date = [now.date EXCEPT !.d = @ + 1]
    /\ \E k \in 1..Len(Result) :
           /\ Result[k].id \in CompletedIds
           /\ Result[k].ownerId # out.user
           /\ Result[k].completedAt = now

\* C28: every reminder a query returns to user u (getAll, getShared,
\* getForDate, getToday, getUpcoming, getOverdue, search, getById), as it
\* is stored, has ownerId = u or u in sharedWith in the collection read,
\* and the summary counts no more reminders than those; so once the owner
\* has taken u off sharedWith by update, no later query of u returns the
\* reminder.
C28_NoDisclosure ==
    /\ (out.op \in ListingOps \cup {"getShared", "getById"} /\ out.status = "ok")
          => \A k \in 1..Len(Result) :
                /\ Result[k].id \in Visible(out.user)
                /\ Result[k] = store[Result[k].id]
    /\ AnsweredOk("summary") => Result[1].total <= Cardinality(Visible(out.user))
    /\ (out.op = "getById" /\ out.id \in DOMAIN store /\ out.id \notin Visible(out.user))
          => out.status = "error" /\ out.error = "Access denied"

\* u2 asks for the reminders shared with it and is given the second
\* reminder but not the first, whose owner u1 has edited it and whose share
\* list is empty
C28_Witness ==
    /\ AnsweredOk("getShared") /\ out.user = "u2"
    /\ Len(store) = 2
    /\ store[1].ownerId = "u1" /\ store[1].sharedWith = <<>>
    /\ store[1].version = 2 /\ store[1].lastModifiedBy = "u1"
    /\ ResultIds = {2}

----------------------------------------------------------------------------
(* Properties of the summary, checked under SpecQuery.                     *)

\* the reader's reminders by state; a due date is before now or not
DoneIds == {i \in Visible(out.user) : store[i].isCompleted = "True"}
PendingIds == Visible(out.user) \ DoneIds
DatedPendingIds == {i \in PendingIds : store[i].dueAt.t \in {"dt", "iso"}}
DueBeforeNow(r) ==
    \/ DayKey(r.dueAt.date) < DayKey(now.date)
    \/ /\ r.dueAt.date = now.date
       /\ r.dueAt.min * 60 + r.dueAt.sec < now.min * 60 + now.sec

\* C25: the summary over the merged own+shared set gives total = number of
\* reminders, completed = those with isCompleted true, pending = those with
\* isCompleted false or unset, overdue = pending with a dueAt in the past,
\* upcoming = pending with a dueAt not in the past, dueToday = not completed
\* with a dueAt on today's calendar day; so completed + pending = total,
\* overdue + upcoming = pending reminders that have a dueAt, dueToday <=
\* pending, and completionRate is 0 when total is 0.
C25_Summary ==
    AnsweredOk("summary")
        => LET s == Result[1] IN
           /\ s.total = Cardinality(Visible(out.user))
           /\ s.completed = Cardinality(DoneIds)
           /\ s.pending = Cardinality(PendingIds)
           /\ s.overdue = Cardinality({i \in DatedPendingIds : DueBeforeNow(store[i])})
           /\ s.upcoming = Cardinality({i \in DatedPendingIds : ~DueBeforeNow(store[i])})
           /\ s.dueToday = Cardinality({i \in DatedPendingIds :
                                          store[i].dueAt.date = now.date})
           /\ s.completed + s.pending = s.total
           /\ s.overdue + s.upcoming = Cardinality(DatedPendingIds)
           /\ s.dueToday <= s.pending
           /\ s.total = 0 => s.completionRate = 0

\* three reminders: one completed, one overdue and one still to come
\* today, a pending one with isCompleted unset; a third are completed
C25_Witness ==
    /\ AnsweredOk("summary")
    /\ Result[1].total = 3 /\ Result[1].completed = 1
    /\ Result[1].overdue = 1 /\ Result[1].upcoming = 1 /\ Result[1].dueToday = 1
    /\ \E i \in PendingIds : store[i].isCompleted = "None"
    /\ Result[1].completionRate = 333

----------------------------------------------------------------------------
(* The anchor date, checked under SpecMatch.                               *)

\* C30: a reminder with a valid dueAt and no recurrenceEnd before its due
\* day matches its own due day under recurrence none, daily, monthly,
\* yearly, an unrecognized string, and weekly without weeklyDays; under
\* weekly with a non-empty weeklyDays it matches its due day iff the ISO
\* weekday of the due day is in weeklyDays, so its first occurrence can lie
\* strictly after the due day.
C30_AnchorDay ==
    (/\ Matched /\ OnDueDay
     /\ HasEndDay => DayKey(EndDay) >= DayKey(DueDay)
     /\ mr.recurrence \in DailySpellings \cup WeeklySpellings \cup MonthlySpellings
                            \cup YearlySpellings \cup OtherSpellings)
        => IF mr.recurrence \in WeeklySpellings /\ HasWeeklyDays
           THEN mres <=> ZellerWeekday(DueDay) \in WeeklyDaySet
           ELSE mres

\* weekly on Monday, Wednesday and Friday, due Sunday 2026-02-01 and asked
\* for that day: no match on the due day
C30_Witness ==
    /\ Matched /\ OnDueDay
    /\ DueDay = Date(2026, 2, 1)
    /\ mr.recurrence \in WeeklySpellings
    /\ WeeklyDaySet = {1, 3, 5}
    /\ NoRecurrenceEnd
    /\ ~mres

----------------------------------------------------------------------------
(* Concurrent mutations, checked under SpecRace.                           *)

Succeeded == {p \in Procs : calls[p].pc = "done" /\ calls[p].status = "ok"}

\* C26: the read and the write of a mutation are atomic per document: when
\* two mutations of the same reminder run concurrently, whatever the
\* interleaving, the stored version afterwards is the version before plus
\* the number of mutations that succeeded (plus 2 when both did): no
\* increment is lost.
C26_NoLostIncrement ==
    (\A p \in Procs : calls[p].pc = "done")
        => store[1].version = 1 + Cardinality(Succeeded)

====
